---- MODULE Spec2Model ----
(***************************************************************************)
(* Change detection and notification dispatch of push-live-results:        *)
(* the Firestore snapshot cache (functions/src/cache.ts), the result diff  *)
(* and the FCM fan-out (functions/src/notifications.ts) and the two poll   *)
(* coordinators of functions/src/index.ts (the api endpoint and the        *)
(* scheduled pollActiveSelections).                                        *)
(***************************************************************************)
EXTENDS Integers, Sequences, FiniteSets, TLC

VARIABLES
    oldResults,     \* notifyResultChanges: the previously cached ResultEntry[]
    newResults,     \* notifyResultChanges: the freshly fetched ResultEntry[]
    splitcontrols,  \* notifyResultChanges: SplitControl[] metadata
    payloads,       \* what the last diff produced (payloads / dispatch plan)
    step,           \* position of the diff harness
    now,            \* Date.now() in ms
    cache,          \* the api_cache collection: key -> <<>> or <<CachedData>>
    got,            \* the last getCachedData call and what it returned
    selectionsColl, \* the selections collection, in query order
    upstream,       \* the provider's state of every (competition, class)
    proc,           \* the running handlers: api requests and the sweep
    sent,           \* how often each follower was sent each notification
    happened,       \* the provider events that occurred over a stored baseline
    exchange,       \* fetchFromAPI: the HTTP exchange of the running call
    fetchResult,    \* fetchFromAPI: what the last call returned
    keyCalls,       \* getCacheKey: the params objects passed and the keys returned
    subscriptions,  \* the selections documents of the app's user, by document id
    following,      \* the (competition, class, runner name) the user follows
    buffer,         \* sanitizeControlCharacters: the bytes passed and returned
    polls           \* the diffs made of one class, poll by poll

diffVars == <<oldResults, newResults, splitcontrols, payloads, step>>
sysVars == <<now, cache, got, selectionsColl, upstream, proc, sent, happened>>
appVars == <<subscriptions, following, buffer, polls>>
clientVars == <<exchange, fetchResult, keyCalls, subscriptions, following, buffer, polls>>
vars == <<oldResults, newResults, splitcontrols, payloads, step,
          now, cache, got, selectionsColl, upstream, proc, sent, happened,
          exchange, fetchResult, keyCalls, subscriptions, following, buffer,
          polls>>

----------------------------------------------------------------------------
(* JavaScript values: undefined, numbers and strings keep their type, so    *)
(* that ===, typeof and truthiness are decided as the code decides them.    *)

Undefined == <<"undefined">>
Num(n) == <<"number", n>>
Str(s) == <<"string", s>>

IsNumber(v) == v[1] = "number"

\* JS truthiness of a value: undefined, "" and 0 are falsy
Truthy(v) == v # Undefined /\ v # Str("") /\ v # Num(0)

\* v ?? d
Nullish(v, d) == IF v = Undefined THEN d ELSE v

\* obj[key] of a plain object: a key that is not set reads as undefined
Prop(obj, key) == IF key \in DOMAIN obj THEN obj[key] ELSE Undefined

\* Number(s) of a decimal string
MaxOrdinal == 30
ToNumber(v) == IF IsNumber(v) THEN v[2]
               ELSE CHOOSE n \in 0..MaxOrdinal : ToString(n) = v[2]

\* String(seconds).padStart(2, "0")
PadStart2(n) == IF n < 10 THEN "0" \o ToString(n) ELSE ToString(n)

\* formatCentiseconds: centiseconds to m:ss
formatCentiseconds(cs) ==
    LET totalSeconds == cs \div 100
        minutes == totalSeconds \div 60
        seconds == totalSeconds % 60
    IN  ToString(minutes) \o ":" \o PadStart2(seconds)

\* ordinal: English ordinal suffix
ordinal(n) ==
    IF n >= 11 /\ n <= 13 THEN ToString(n) \o "th"
    ELSE CASE n % 10 = 1 -> ToString(n) \o "st"
           [] n % 10 = 2 -> ToString(n) \o "nd"
           [] n % 10 = 3 -> ToString(n) \o "rd"
           [] OTHER -> ToString(n) \o "th"

\* getStatusText: statusMap[status] || "Unknown"
getStatusText(status) ==
    CASE status = 0 -> "OK"
      [] status = 1 -> "Did Not Start"
      [] status = 2 -> "Did Not Finish"
      [] status = 3 -> "Mispunch"
      [] status = 4 -> "Disqualified"
      [] status = 5 -> "Over Time"
      [] status = 9 -> "Not Started"
      [] status = 10 -> "Not Started"
      [] status = 11 -> "Walk Over"
      [] status = 12 -> "Moved"
      [] OTHER -> "Unknown"

----------------------------------------------------------------------------
(* detectResultChanges: the payloads for one runner's old and new entry.    *)
(* An entry's splits field is <<>> when the entry has no splits object and  *)
(* <<m>> when it has the object m (control key -> value).                   *)

\* oldResult.splits?.[code]
OptProp(r, key) == IF r.splits = <<>> THEN Undefined ELSE Prop(r.splits[1], key)

\* the body of a split notification
SplitBodyZeroAsDeficit(newResult, control) ==
    LET code == control.code
        place == OptProp(newResult, code \o "_place")
        timeplus == OptProp(newResult, code \o "_timeplus")
        b0 == newResult.name \o " passed " \o control.name
        b1 == IF place # Undefined /\ place # Str("") /\ place # Str("-")
              THEN b0 \o ", " \o ordinal(ToNumber(place)) \o " place"
              ELSE b0
    IN  IF IsNumber(timeplus)
        THEN b1 \o " (+" \o formatCentiseconds(timeplus[2]) \o ")"
        ELSE b1

SplitBody(newResult, control) ==
    LET code == control.code
        place == OptProp(newResult, code \o "_place")
        timeplus == OptProp(newResult, code \o "_timeplus")
        b0 == newResult.name \o " passed " \o control.name
        b1 == IF place # Undefined /\ place # Str("") /\ place # Str("-")
              THEN b0 \o ", " \o ordinal(ToNumber(place)) \o " place"
              ELSE b0
    IN  IF IsNumber(timeplus)
        THEN IF timeplus = Num(0)
             THEN b1 \o " (leading!)"
             ELSE b1 \o " (+" \o formatCentiseconds(timeplus[2]) \o ")"
        ELSE b1

\* one control of section 1: went from empty to a value
SplitArrivedUndefinedOnly(oldResult, newResult, control) ==
    LET oldSplit == OptProp(oldResult, control.code)
        newSplit == OptProp(newResult, control.code)
    IN  oldSplit = Undefined /\ newSplit # Undefined /\ newSplit # Str("")

SplitArrived(oldResult, newResult, control) ==
    LET oldSplit == OptProp(oldResult, control.code)
        newSplit == OptProp(newResult, control.code)
        hadNoSplit == oldSplit = Undefined \/ oldSplit = Str("")
        hasNewSplit == newSplit # Undefined /\ newSplit # Str("")
    IN  hadNoSplit /\ hasNewSplit

\* the titles' em dash is written " -- "
SplitPayload(newResult, className, competitionId, control) ==
    [title |-> className \o " -- " \o control.name,
     body |-> SplitBody(newResult, control),
     data |-> [competitionId |-> competitionId, className |-> className,
               runnerName |-> newResult.name, type |-> "split",
               control |-> control.code]]

\* the controls walked from the last to the first
RECURSIVE SplitPayloadsLastFirst(_, _, _, _, _, _)
SplitPayloadsLastFirst(oldResult, newResult, className, competitionId, sc, i) ==
    IF i > Len(sc) THEN <<>>
    ELSE SplitPayloadsLastFirst(oldResult, newResult, className, competitionId, sc, i + 1)
         \o (IF SplitArrived(oldResult, newResult, sc[i])
             THEN <<SplitPayload(newResult, className, competitionId, sc[i])>>
             ELSE <<>>)

RECURSIVE SplitPayloads(_, _, _, _, _, _)
SplitPayloads(oldResult, newResult, className, competitionId, sc, i) ==
    IF i > Len(sc) THEN <<>>
    ELSE (IF SplitArrived(oldResult, newResult, sc[i])
          THEN <<SplitPayload(newResult, className, competitionId, sc[i])>>
          ELSE <<>>)
         \o SplitPayloads(oldResult, newResult, className, competitionId, sc, i + 1)

wasRunningAlways(oldResult) == TRUE

wasRunning(oldResult) == ToNumber(Nullish(oldResult.progress, Num(0))) < 100

nowFinishedStrict(newResult) ==
    ToNumber(Nullish(newResult.progress, Num(0))) > 100

nowFinished(newResult) == ToNumber(Nullish(newResult.progress, Num(0))) >= 100

FinishBody(newResult) ==
    LET b0 == newResult.name \o " finished in " \o newResult.result[2]
        b1 == IF Truthy(newResult.place) /\ newResult.place # Str("")
                 /\ newResult.place # Str("-")
              THEN b0 \o ", " \o ordinal(ToNumber(newResult.place)) \o " place"
              ELSE b0
    IN  IF Truthy(newResult.timeplus) /\ newResult.timeplus # Str("+")
           /\ newResult.timeplus # Str("")
        THEN b1 \o " (" \o newResult.timeplus[2] \o ")"
        ELSE b1

FinishPayload(newResult, className, competitionId) ==
    [title |-> className \o " -- Finished!",
     body |-> FinishBody(newResult),
     data |-> [competitionId |-> competitionId, className |-> className,
               runnerName |-> newResult.name, type |-> "finish"]]

StatusPayload(newResult, className, competitionId) ==
    LET statusText == getStatusText(newResult.status)
    IN  [title |-> className \o " -- " \o statusText,
         body |-> newResult.name \o " -- " \o statusText,
         data |-> [competitionId |-> competitionId, className |-> className,
                   runnerName |-> newResult.name, type |-> "status"]]

\* section 3 of detectResultChanges: a problem status while still in the race
MidRaceProblemUnguarded(oldResult, newResult) ==
    /\ oldResult.status # newResult.status
    /\ newResult.status # 0
    /\ newResult.status # 9
    /\ newResult.status # 10

MidRaceProblem(oldResult, newResult) ==
    /\ ~(wasRunning(oldResult) /\ nowFinished(newResult))
    /\ oldResult.status # newResult.status
    /\ newResult.status # 0
    /\ newResult.status # 9
    /\ newResult.status # 10

detectResultChanges(oldResult, newResult, className, competitionId, sc) ==
    LET splitPart ==
            IF newResult.splits # <<>> /\ Len(sc) > 0
            THEN SplitPayloads(oldResult, newResult, className, competitionId, sc, 1)
            ELSE <<>>
        finishPart ==
            IF wasRunning(oldResult) /\ nowFinished(newResult)
            THEN IF newResult.status = 0
                 THEN <<FinishPayload(newResult, className, competitionId)>>
                 ELSE <<StatusPayload(newResult, className, competitionId)>>
            ELSE <<>>
        statusPart ==
            IF MidRaceProblem(oldResult, newResult)
            THEN <<StatusPayload(newResult, className, competitionId)>>
            ELSE <<>>
    IN  splitPart \o finishPart \o statusPart

----------------------------------------------------------------------------
(* notifyResultChanges and sendToFollowers.  The selections collection is   *)
(* a sequence of documents in the order a query returns them.               *)

\* getUserSelections: the documents of one competition and class; [] when
\* the query raises
getUserSelectionsOfCompetition(docs, competitionId, className, queryOk) ==
    IF queryOk
    THEN SelectSeq(docs, LAMBDA s : s.competitionId = competitionId)
    ELSE <<>>

getUserSelections(docs, competitionId, className, queryOk) ==
    IF queryOk
    THEN SelectSeq(docs, LAMBDA s : s.competitionId = competitionId
                                    /\ s.className = className)
    ELSE <<>>

\* oldResultsMap.get(name): <<entry>> or <<>>; a later entry of the same
\* name overwrites an earlier one
oldResultsMapGetNoBaseline(old, name) ==
    LET hits == {i \in 1..Len(old) : old[i].name = name}
    IN  IF hits = {}
        THEN <<[name |-> name, status |-> 9, progress |-> Undefined,
                splits |-> <<>>, place |-> Str(""), result |-> Str(""),
                timeplus |-> Str("")]>>
        ELSE <<old[CHOOSE i \in hits : \A j \in hits : j <= i]>>

oldResultsMapGet(old, name) ==
    LET hits == {i \in 1..Len(old) : old[i].name = name}
    IN  IF hits = {} THEN <<>>
        ELSE <<old[CHOOSE i \in hits : \A j \in hits : j <= i]>>

\* the payloads of one runner paired with the runner's followers
RECURSIVE WithFollowers(_, _, _)
WithFollowers(followers, ps, i) ==
    IF i > Len(ps) THEN <<>>
    ELSE <<[followers |-> followers, payload |-> ps[i]]>>
         \o WithFollowers(followers, ps, i + 1)

RECURSIVE ResultChangeLoop(_, _, _, _, _, _, _)
ResultChangeLoop(selections, competitionId, className, old, new, sc, i) ==
    IF i > Len(new) THEN <<>>
    ELSE LET newResult == new[i]
             oldResult == oldResultsMapGet(old, newResult.name)
             followers == SelectSeq(selections,
                              LAMBDA s : s.runnerName = newResult.name)
             here == IF oldResult = <<>> \/ Len(followers) = 0 THEN <<>>
                     ELSE WithFollowers(followers,
                              detectResultChanges(oldResult[1], newResult,
                                  className, competitionId, sc), 1)
         IN  here \o ResultChangeLoop(selections, competitionId, className,
                                      old, new, sc, i + 1)

\* notifyResultChanges: the sendToFollowers calls it makes, in order
notifyResultChanges(docs, queryOk, competitionId, className, old, new, sc) ==
    LET selections == getUserSelections(docs, competitionId, className, queryOk)
    IN  IF Len(selections) = 0 THEN <<>>
        ELSE ResultChangeLoop(selections, competitionId, className,
                              old, new, sc, 1)

\* sendToFollowers: one sendPushNotification per follower with a truthy
\* token; rejected is the set of tokens whose send rejects
TokenFilterAll(f) == TRUE
TokenFilter(f) == Truthy(f.fcmToken)

RECURSIVE Attempts(_, _, _, _)
Attempts(followers, payload, rejected, i) ==
    IF i > Len(followers) THEN <<>>
    ELSE (IF TokenFilter(followers[i])
          THEN <<[userId |-> followers[i].userId,
                  token |-> followers[i].fcmToken,
                  payload |-> payload,
                  ok |-> followers[i].fcmToken \notin rejected]>>
          ELSE <<>>)
         \o Attempts(followers, payload, rejected, i + 1)

\* the sends made one after the other, the first rejection ending the loop
RECURSIVE AttemptsUntilRejected(_, _, _, _)
AttemptsUntilRejected(followers, payload, rejected, i) ==
    IF i > Len(followers) THEN <<>>
    ELSE IF ~TokenFilter(followers[i])
    THEN AttemptsUntilRejected(followers, payload, rejected, i + 1)
    ELSE <<[userId |-> followers[i].userId, token |-> followers[i].fcmToken,
            payload |-> payload, ok |-> followers[i].fcmToken \notin rejected]>>
         \o (IF followers[i].fcmToken \in rejected THEN <<>>
             ELSE AttemptsUntilRejected(followers, payload, rejected, i + 1))

sendToFollowersSequential(followers, payload, rejected) ==
    AttemptsUntilRejected(followers, payload, rejected, 1)

sendToFollowers(followers, payload, rejected) ==
    Attempts(followers, payload, rejected, 1)


----------------------------------------------------------------------------
(* The snapshot cache (cache.ts).                                           *)

CLASS_RESULTS_TTL == 15 * 60 * 1000
CLASSES_TTL == 15 * 60 * 1000

\* Object.keys(params).sort(): the rank of the parameter names used
KeyRank(k) ==
    CASE k = "class" -> 1 [] k = "club" -> 2 [] k = "comp" -> 3 [] k = "method" -> 4

RECURSIVE JoinSorted(_, _)
JoinSorted(params, rank) ==
    IF rank > 4 THEN ""
    ELSE LET here == {i \in 1..Len(params) : KeyRank(params[i][1]) = rank}
             rest == JoinSorted(params, rank + 1)
         IN  IF here = {} THEN rest
             ELSE LET i == CHOOSE j \in here : TRUE
                      part == params[i][1] \o "=" \o params[i][2]
                  IN  IF rest = "" THEN part ELSE part \o "&" \o rest

\* the parameters joined in the order Object.keys returns them
RECURSIVE JoinInOrder(_, _)
JoinInOrder(params, i) ==
    IF i > Len(params) THEN ""
    ELSE LET part == params[i][1] \o "=" \o params[i][2]
         IN  IF i = Len(params) THEN part
             ELSE part \o "&" \o JoinInOrder(params, i + 1)

\* getCacheKey: params is the object literal as <<name, value>> pairs in
\* insertion order
getCacheKeyUnsorted(params) == JoinInOrder(params, 1)

getCacheKey(params) == JoinSorted(params, 1)

\* getCachedData: null (<<>>) when there is no document, when it is older
\* than ttlMs, or when the read raises
getCachedDataNoExpiry(store, cacheKey, ttlMs, t, readOk) ==
    IF ~readOk THEN <<>> ELSE store[cacheKey]

getCachedDataStrictAge(store, cacheKey, ttlMs, t, readOk) ==
    IF ~readOk THEN <<>>
    ELSE IF store[cacheKey] = <<>> THEN <<>>
    ELSE IF t - store[cacheKey][1].timestamp >= ttlMs THEN <<>>
    ELSE store[cacheKey]

getCachedData(store, cacheKey, ttlMs, t, readOk) ==
    IF ~readOk THEN <<>>
    ELSE IF store[cacheKey] = <<>> THEN <<>>
    ELSE IF t - store[cacheKey][1].timestamp > ttlMs THEN <<>>
    ELSE store[cacheKey]

\* setCachedData: overwrites the document; a write that raises is logged
setCachedDataLosesDocument(store, cacheKey, hash, data, t, writeOk) ==
    IF writeOk
    THEN [store EXCEPT ![cacheKey] =
             <<[hash |-> hash, data |-> data, timestamp |-> t]>>]
    ELSE [store EXCEPT ![cacheKey] = <<>>]

setCachedDataKeepsWriteTime(store, cacheKey, hash, data, t, writeOk) ==
    IF writeOk
    THEN [store EXCEPT ![cacheKey] =
             <<[hash |-> hash, data |-> data,
                timestamp |-> IF store[cacheKey] = <<>> THEN t
                              ELSE store[cacheKey][1].timestamp]>>]
    ELSE store

setCachedData(store, cacheKey, hash, data, t, writeOk) ==
    IF writeOk
    THEN [store EXCEPT ![cacheKey] =
             <<[hash |-> hash, data |-> data, timestamp |-> t]>>]
    ELSE store

\* cleanOldCache: the documents whose timestamp is before seven days ago
\* are deleted in one batch; a query or commit that raises is logged
cleanOldCacheByTtl(store, t, cleanOk) ==
    IF ~cleanOk THEN store
    ELSE [k \in DOMAIN store |->
             IF store[k] # <<>> /\ store[k][1].timestamp < t - CLASS_RESULTS_TTL
             THEN <<>> ELSE store[k]]

cleanOldCache(store, t, cleanOk) ==
    IF ~cleanOk THEN store
    ELSE [k \in DOMAIN store |->
             IF store[k] # <<>>
                /\ store[k][1].timestamp < t - 7 * 24 * 60 * 60 * 1000
             THEN <<>> ELSE store[k]]

----------------------------------------------------------------------------
(* The data the diff is exercised on: competition 10278, class H21.         *)

CompId == "10278"
ClassName == "H21"
Anton == "Anton Morkfors"
Berit == "Berit Berg"

Control1065 == [code |-> "1065", name |-> "Radio K65"]
Control1090 == [code |-> "1090", name |-> "Radio K90"]

\* a splits object of the provider for one passed control
Passed(code, time, place, timeplus) ==
    (code :> Num(time)) @@ ((code \o "_status") :> Num(0))
    @@ ((code \o "_place") :> place) @@ ((code \o "_timeplus") :> timeplus)

NotPassed(code) ==
    (code :> Str("")) @@ ((code \o "_status") :> Num(1))
    @@ ((code \o "_place") :> Str("")) @@ ((code \o "_timeplus") :> Str(""))

EmptyObject == [k \in {} |-> Undefined]

SplitVariants ==
    { <<>>,
      <<EmptyObject>>,
      <<NotPassed("1065")>>,
      <<Passed("1065", 26900, Str("2"), Num(1100))>>,
      <<Passed("1065", 25800, Str("1"), Num(0))>>,
      <<("1065" :> Num(27000)) @@ ("1065_place" :> Str("-"))>> }

Displays ==
    { [place |-> Str(""), result |-> Str(""), timeplus |-> Str("")],
      [place |-> Str("1"), result |-> Str("17:02"), timeplus |-> Str("+")],
      [place |-> Str("2"), result |-> Str("17:13"), timeplus |-> Str("+0:11")] }

Statuses == {0, 4, 9, 10}
Progresses == {Undefined, Num(80), Num(100)}

Entry(name, status, progress, splits, d) ==
    [name |-> name, status |-> status, progress |-> progress,
     splits |-> splits, place |-> d.place, result |-> d.result,
     timeplus |-> d.timeplus]

\* every entry of one runner
DetectEntries ==
    { Entry(Anton, s, p, sp, d) :
        s \in Statuses, p \in Progresses, sp \in SplitVariants, d \in Displays }

SplitControlVariants == { <<>>, <<Control1065>>, <<Control1090, Control1065>> }

\* the followers: two devices on Anton, one subscription on Anton without a
\* token and one with an empty token, one device on Berit, one subscription
\* of another class
SelectionDocs ==
    << [userId |-> "u1", competitionId |-> CompId, className |-> ClassName,
        runnerName |-> Anton, fcmToken |-> Str("tokenA"), startTime |-> 0],
       [userId |-> "u2", competitionId |-> CompId, className |-> ClassName,
        runnerName |-> Anton, fcmToken |-> Str("tokenB"), startTime |-> 0],
       [userId |-> "u3", competitionId |-> CompId, className |-> ClassName,
        runnerName |-> Anton, fcmToken |-> Undefined, startTime |-> 0],
       [userId |-> "u4", competitionId |-> CompId, className |-> ClassName,
        runnerName |-> Berit, fcmToken |-> Str("tokenC"), startTime |-> 0],
       [userId |-> "u6", competitionId |-> CompId, className |-> ClassName,
        runnerName |-> Anton, fcmToken |-> Str(""), startTime |-> 0],
       [userId |-> "u5", competitionId |-> CompId, className |-> "D21",
        runnerName |-> Anton, fcmToken |-> Str("tokenD"), startTime |-> 0] >>

----------------------------------------------------------------------------
(* The provider and the two poll coordinators (index.ts).                   *)

PairH21 == <<CompId, ClassName>>
PairD21 == <<CompId, "D21">>
PairOther == <<"10279", ClassName>>
Pairs == {PairH21, PairD21, PairOther}

\* the api endpoint runs in up to five instances (maxInstances: 5); two of
\* them stand for requests served at the same time, OneApi for requests
\* served one after the other
ApiProcs == {"api", "api2"}
OneApi == {"api"}
SweepProcs == {"sweep"}
Procs == ApiProcs \cup SweepProcs

MaxTicks == 1
TickMs == 20 * 60 * 1000

NoDisplay == [place |-> Str(""), result |-> Str(""), timeplus |-> Str("")]

\* the provider's token of a version of a class
HashOf(version) == Str("h" \o ToString(version))

\* what the provider answers to a class-results query carrying last_hash
ProviderAnswer(up, lastHash, fetchOk) ==
    IF ~fetchOk
    THEN [status |-> "ERROR", hash |-> Undefined, data |-> <<>>,
          splitcontrols |-> <<>>]
    ELSE IF Truthy(lastHash) /\ lastHash = HashOf(up.version)
    THEN [status |-> "NOT MODIFIED", hash |-> HashOf(up.version),
          data |-> <<>>, splitcontrols |-> <<>>]
    ELSE [status |-> "OK", hash |-> HashOf(up.version),
          data |-> <<up.results>>, splitcontrols |-> up.splitcontrols]

\* fetchClassResults: status, hash and the results array only
fetchClassResults(up, lastHash, fetchOk) ==
    [ProviderAnswer(up, lastHash, fetchOk) EXCEPT !.splitcontrols = <<>>]

\* fetchClassResultsFull: the results with the splitcontrols metadata
fetchClassResultsFull(up, lastHash, fetchOk) ==
    ProviderAnswer(up, lastHash, fetchOk)

\* the cache key of the api handler
ApiCacheKey(pair) ==
    getCacheKey(<< <<"method", "getclassresults">>, <<"comp", pair[1]>>,
                   <<"class", pair[2]>> >>)

\* the cache key of pollActiveSelections
SweepCacheKey(pair) ==
    getCacheKey(<< <<"method", "getclassresult">>, <<"comp", pair[1]>>,
                   <<"class", pair[2]>> >>)

\* the cache key of the api handler, case getclasses
ClassesCacheKey(comp) ==
    getCacheKey(<< <<"method", "getclasses">>, <<"comp", comp>> >>)

CacheKeys ==
    {ApiCacheKey(pr) : pr \in Pairs} \cup {SweepCacheKey(pr) : pr \in Pairs}
    \cup {ClassesCacheKey(CompId)}

\* the provider's class list of the competition; it does not change
ClassesUpstream ==
    [version |-> 1, results |-> <<ClassName, "D21">>, splitcontrols |-> <<>>]

\* fetchClasses: status, hash and the classes array
fetchClasses(lastHash, fetchOk) ==
    [ProviderAnswer(ClassesUpstream, lastHash, fetchOk)
        EXCEPT !.splitcontrols = <<>>]

\* the selections whose startTime lies in the sweep's window
ActiveSelectionsInside(docs, t) ==
    SelectSeq(docs, LAMBDA d : /\ d.startTime > t - 180 * 60 * 1000
                               /\ d.startTime < t + 30 * 60 * 1000)

ActiveSelections(docs, t) ==
    SelectSeq(docs, LAMBDA d : /\ d.startTime >= t - 180 * 60 * 1000
                               /\ d.startTime <= t + 30 * 60 * 1000)

\* the key of the uniqueTargets map
TargetKeyClassOnly(selection) == selection.className

TargetKey(selection) == selection.competitionId \o "_" \o selection.className

\* uniqueTargets: the target of every key in order of the key's first
\* occurrence; seen is the set of keys the map has
RECURSIVE uniqueTargets(_, _, _)
uniqueTargets(docs, i, seen) ==
    IF i > Len(docs) THEN <<>>
    ELSE LET key == TargetKey(docs[i])
         IN  IF key \in seen THEN uniqueTargets(docs, i + 1, seen)
             ELSE << <<docs[i].competitionId, docs[i].className>> >>
                  \o uniqueTargets(docs, i + 1, seen \cup {key})

\* a handler that is not running
Idle == [pc |-> "idle", method |-> "", pair |-> PairH21, lastHash |-> Undefined,
         cached |-> <<>>, fetched |-> <<>>, plan |-> <<>>, targets |-> <<>>,
         polled |-> <<>>, log |-> <<>>, response |-> <<>>]

AntonStart == Entry(Anton, 9, Num(0), <<NotPassed("1065")>>, NoDisplay)
BeritStart == Entry(Berit, 9, Num(0), <<NotPassed("1065")>>, NoDisplay)

\* the followers of class H21
H21Docs == SelectSeq(SelectionDocs, LAMBDA d : d.className = ClassName)

\* what identifies a notification: runner, type and control
EventKey(data) ==
    [runnerName |-> data.runnerName, type |-> data.type,
     control |-> IF data.type = "split" THEN data.control ELSE ""]

\* the sends of one sendToFollowers call added to the count of all sends
RECURSIVE Count(_, _, _)
Count(bag, attempts, i) ==
    IF i > Len(attempts) THEN bag
    ELSE LET k == <<attempts[i].userId, EventKey(attempts[i].payload.data)>>
             b == IF k \in DOMAIN bag
                  THEN [bag EXCEPT ![k] = @ + 1]
                  ELSE bag @@ (k :> 1)
         IN  Count(b, attempts, i + 1)

InitSysWith(docs) ==
    /\ now = 0
    /\ cache = [k \in CacheKeys |-> <<>>]
    /\ got = <<>>
    /\ selectionsColl = docs
    /\ upstream = [pr \in Pairs |->
          IF pr = PairH21
          THEN [version |-> 1, results |-> <<AntonStart, BeritStart>>,
                splitcontrols |-> <<Control1065>>]
          ELSE [version |-> 1, results |-> <<AntonStart>>,
                splitcontrols |-> <<>>]]
    /\ proc = [p \in Procs |-> Idle]
    /\ sent = <<>>
    /\ happened = {}

InitSys == InitSysWith(H21Docs)

\* no fetchFromAPI call has been made
InitClientIdle ==
    /\ exchange = <<>>
    /\ fetchResult = <<>>
    /\ keyCalls = <<>>
    /\ subscriptions = <<>>
    /\ following = {}
    /\ buffer = <<>>
    /\ polls = <<>>

InitDiffIdle ==
    /\ oldResults = <<>>
    /\ newResults = <<>>
    /\ splitcontrols = <<>>
    /\ payloads = <<>>
    /\ step = "start"
    /\ InitClientIdle

Init == InitSys /\ InitDiffIdle

\* the clock advances
Tick ==
    /\ now + TickMs <= MaxTicks * TickMs
    /\ now' = now + TickMs
    /\ UNCHANGED <<cache, got, selectionsColl, upstream, proc, sent, happened, diffVars, clientVars>>

\* some stored class-results document of the pair holds an entry of the runner
HasBaseline(pair, name) ==
    \E k \in {ApiCacheKey(pair), SweepCacheKey(pair)} :
        /\ cache[k] # <<>>
        /\ \E i \in 1..Len(cache[k][1].data) : cache[k][1].data[i].name = name

\* the provider changes the first entry (Anton) of class H21
UpstreamChange(entry, event) ==
    /\ upstream' = [upstream EXCEPT
                      ![PairH21].results[1] = entry,
                      ![PairH21].version = @ + 1]
    /\ happened' = IF HasBaseline(PairH21, entry.name)
                   THEN happened \cup {event} ELSE happened
    /\ UNCHANGED <<now, cache, got, selectionsColl, proc, sent, diffVars, clientVars>>

\* Anton passes radio control 1065
UpstreamSplit ==
    LET a == upstream[PairH21].results[1]
    IN  /\ a.splits = <<NotPassed("1065")>>
        /\ a.status = 9
        /\ UpstreamChange(
              [a EXCEPT !.splits = <<Passed("1065", 26900, Str("2"), Num(1100))>>,
                        !.progress = Num(50)],
              [runnerName |-> Anton, type |-> "split", control |-> "1065"])

\* Anton reaches the finish with status OK
UpstreamFinish ==
    LET a == upstream[PairH21].results[1]
    IN  /\ a.status = 9
        /\ UpstreamChange(
              [a EXCEPT !.status = 0, !.progress = Num(100),
                        !.result = Str("17:02"), !.place = Str("1"),
                        !.timeplus = Str("+")],
              [runnerName |-> Anton, type |-> "finish", control |-> ""])

\* Anton is disqualified during the race
UpstreamDisqualify ==
    LET a == upstream[PairH21].results[1]
    IN  /\ a.status = 9
        /\ UpstreamChange(
              [a EXCEPT !.status = 4, !.place = Str("-")],
              [runnerName |-> Anton, type |-> "status", control |-> ""])

\* cached && lastHash && cached.hash === lastHash
CacheHitNotModifiedInverted(cached, lastHash) ==
    cached # <<>> /\ Truthy(lastHash) /\ cached[1].hash # lastHash

CacheHitNotModified(cached, lastHash) ==
    cached # <<>> /\ Truthy(lastHash) /\ cached[1].hash = lastHash

\* api, case getclassresults: the cache lookup and the NOT MODIFIED shortcut
ApiRequest(p, pair, lastHash, readOk) ==
    /\ p \in ApiProcs
    /\ proc[p].pc = "idle"
    /\ LET cached == getCachedData(cache, ApiCacheKey(pair),
                                   CLASS_RESULTS_TTL, now, readOk)
       IN  proc' = [proc EXCEPT ![p] =
              IF CacheHitNotModified(cached, lastHash)
              THEN [Idle EXCEPT !.pc = "respond", !.pair = pair,
                       !.method = "getclassresults",
                       !.lastHash = lastHash,
                       !.response = <<[status |-> "NOT MODIFIED",
                                       hash |-> cached[1].hash,
                                       data |-> <<>>]>>]
              ELSE [Idle EXCEPT !.pc = "fetch", !.pair = pair,
                       !.method = "getclassresults",
                       !.lastHash = lastHash, !.cached = cached]]
    /\ UNCHANGED <<now, cache, got, selectionsColl, upstream, sent, happened, diffVars, clientVars>>

\* the three branches after fetchClassResults: the result is stored and
\* answered, the cached document is answered, or the request fails
FetchBranchServesCached(r) ==
    IF r.status = "OK" /\ r.data # <<>> /\ Truthy(r.hash) THEN "changed"
    ELSE "unchanged"

FetchBranch(r) ==
    IF r.status = "OK" /\ r.data # <<>> /\ Truthy(r.hash) THEN "changed"
    ELSE IF r.status = "NOT MODIFIED" THEN "unchanged"
    ELSE "failed"

\* api, case getclassresults: fetchClassResults and the branch on its status;
\* polled keeps the status the fetch returned
ApiFetch(p, fetchOk) ==
    /\ p \in ApiProcs
    /\ proc[p].pc = "fetch"
    /\ LET r == fetchClassResults(upstream[proc[p].pair], proc[p].lastHash, fetchOk)
           me == [proc[p] EXCEPT !.polled =
                     <<[pair |-> proc[p].pair, status |-> r.status]>>]
       IN  proc' = [proc EXCEPT ![p] =
              IF FetchBranch(r) = "changed"
              THEN [me EXCEPT !.fetched = <<r>>,
                       !.pc = IF me.cached # <<>> THEN "notify" ELSE "write"]
              ELSE IF FetchBranch(r) = "unchanged"
              THEN [me EXCEPT !.pc = "respond",
                       !.response =
                          IF me.cached # <<>>
                          THEN <<[status |-> "OK", hash |-> me.cached[1].hash,
                                  data |-> <<me.cached[1].data>>]>>
                          ELSE <<[status |-> r.status, hash |-> r.hash,
                                  data |-> <<>>]>>]
              ELSE [me EXCEPT !.pc = "respond",
                       !.response = <<[status |-> "500", hash |-> Undefined,
                                       data |-> <<>>]>>]]
    /\ UNCHANGED <<now, cache, got, selectionsColl, upstream, sent, happened, diffVars, clientVars>>

\* api, case getclasses: the cache lookup, the NOT MODIFIED shortcut and the
\* cached answer
ClassesRequest(p, comp, lastHash, readOk) ==
    /\ p \in ApiProcs
    /\ proc[p].pc = "idle"
    /\ LET cached == getCachedData(cache, ClassesCacheKey(comp),
                                   CLASSES_TTL, now, readOk)
           me == [Idle EXCEPT !.method = "getclasses", !.pair = <<comp, "">>,
                              !.lastHash = lastHash]
       IN  proc' = [proc EXCEPT ![p] =
              IF CacheHitNotModified(cached, lastHash)
              THEN [me EXCEPT !.pc = "respond",
                       !.response = <<[status |-> "NOT MODIFIED",
                                       hash |-> cached[1].hash,
                                       data |-> <<>>]>>]
              ELSE IF cached # <<>>
              THEN [me EXCEPT !.pc = "respond", !.cached = cached,
                       !.response = <<[status |-> "OK",
                                       hash |-> cached[1].hash,
                                       data |-> <<cached[1].data>>]>>]
              ELSE [me EXCEPT !.pc = "fetchclasses"]]
    /\ UNCHANGED <<now, cache, got, selectionsColl, upstream, sent, happened, diffVars, clientVars>>

\* api, case getclasses: fetchClasses and the branch on its status
ClassesFetch(p, fetchOk) ==
    /\ p \in ApiProcs
    /\ proc[p].pc = "fetchclasses"
    /\ LET me == proc[p]
           r == fetchClasses(me.lastHash, fetchOk)
       IN  proc' = [proc EXCEPT ![p] =
              IF r.status = "OK" /\ r.data # <<>> /\ Truthy(r.hash)
              THEN [me EXCEPT !.fetched = <<r>>, !.pc = "writeclasses"]
              ELSE IF r.status = "NOT MODIFIED"
              THEN [me EXCEPT !.pc = "respond",
                       !.response = <<[status |-> r.status, hash |-> r.hash,
                                       data |-> <<>>]>>]
              ELSE [me EXCEPT !.pc = "respond",
                       !.response = <<[status |-> "500", hash |-> Undefined,
                                       data |-> <<>>]>>]]
    /\ UNCHANGED <<now, cache, got, selectionsColl, upstream, sent, happened, diffVars, clientVars>>

\* api, case getclasses: setCachedData of the fetched list, then the answer
ClassesWrite(p, writeOk) ==
    /\ p \in ApiProcs
    /\ proc[p].pc = "writeclasses"
    /\ LET me == proc[p]
           r == me.fetched[1]
       IN  /\ cache' = setCachedData(cache, ClassesCacheKey(me.pair[1]), r.hash,
                                     r.data[1], now, writeOk)
           /\ proc' = [proc EXCEPT ![p] =
                 [me EXCEPT !.pc = "respond",
                     !.response = <<[status |-> r.status, hash |-> r.hash,
                                     data |-> r.data]>>]]
    /\ UNCHANGED <<now, got, selectionsColl, upstream, sent, happened, diffVars, clientVars>>

\* api: a statement of the handler raises and the outer catch answers
\* res.status(500).json({error: "Internal server error"})
ApiRaise(p) ==
    /\ p \in ApiProcs
    /\ proc[p].pc \in {"fetch", "notify", "dispatch", "write"}
    /\ proc' = [proc EXCEPT ![p].pc = "respond",
                            ![p].plan = <<>>,
                            ![p].response = <<[status |-> "500", hash |-> Undefined,
                                               data |-> <<>>]>>]
    /\ UNCHANGED <<now, cache, got, selectionsColl, upstream, sent, happened, diffVars, clientVars>>

\* api: the response has been written and the request is over
ApiRespond(p) ==
    /\ p \in ApiProcs
    /\ proc[p].pc = "respond"
    /\ proc' = [proc EXCEPT ![p] = Idle]
    /\ UNCHANGED <<now, cache, got, selectionsColl, upstream, sent, happened, diffVars, clientVars>>

\* pollActiveSelections: the query of the active selections and the targets
SweepStart(p) ==
    /\ p \in SweepProcs
    /\ proc[p].pc = "idle"
    /\ LET targets == uniqueTargets(ActiveSelections(selectionsColl, now), 1, {})
       IN  /\ targets # <<>>
           /\ proc' = [proc EXCEPT ![p] =
                 [Idle EXCEPT !.pc = "read", !.targets = targets,
                              !.pair = targets[1]]]
    /\ UNCHANGED <<now, cache, got, selectionsColl, upstream, sent, happened, diffVars, clientVars>>

\* cached?.hash
CachedHashNone(cached) == Undefined

CachedHash(cached) == IF cached = <<>> THEN Undefined ELSE cached[1].hash

\* pollActiveSelections: the cache lookup of the current target
SweepRead(p, readOk) ==
    /\ p \in SweepProcs
    /\ proc[p].pc = "read"
    /\ LET cached == getCachedData(cache, SweepCacheKey(proc[p].pair),
                                   CLASS_RESULTS_TTL, now, readOk)
       IN  proc' = [proc EXCEPT ![p].cached = cached,
                                ![p].lastHash = CachedHash(cached),
                                ![p].pc = "fetch"]
    /\ UNCHANGED <<now, cache, got, selectionsColl, upstream, sent, happened, diffVars, clientVars>>

\* the loop goes on with the next target, or the sweep ends
NextTargetAbort(me) == Idle

NextTarget(me) ==
    IF Len(me.targets) > 1
    THEN [Idle EXCEPT !.pc = "read", !.targets = Tail(me.targets),
                      !.pair = me.targets[2], !.polled = me.polled]
    ELSE Idle

\* pollActiveSelections: fetchClassResultsFull and the branch on its status
SweepFetch(p, fetchOk) ==
    /\ p \in SweepProcs
    /\ proc[p].pc = "fetch"
    /\ LET oldLen == IF proc[p].cached = <<>> THEN 0
                     ELSE Len(proc[p].cached[1].data)
           r == fetchClassResultsFull(upstream[proc[p].pair],
                                      proc[p].lastHash, fetchOk)
           me == [proc[p] EXCEPT !.polled =
                     @ \o <<[pair |-> proc[p].pair, status |-> r.status]>>]
       IN  proc' = [proc EXCEPT ![p] =
              IF r.status = "NOT MODIFIED" THEN NextTarget(me)
              ELSE IF r.status # "OK" \/ r.data = <<>> THEN NextTarget(me)
              ELSE [me EXCEPT !.fetched = <<r>>,
                       !.pc = IF oldLen > 0 THEN "notify" ELSE "write"]]
    /\ UNCHANGED <<now, cache, got, selectionsColl, upstream, sent, happened, diffVars, clientVars>>

\* await notifyResultChanges(...) comes before setCachedData: the handler
\* makes the sendToFollowers calls of the diff, if any, and only then writes
AfterDiffWriteFirst(plan) == "write"

AfterDiff(plan) == IF plan = <<>> THEN "write" ELSE "dispatch"

\* notifyResultChanges up to its first sendToFollowers: the selections are
\* read and the old and new entries compared
Notify(p, queryOk) ==
    /\ proc[p].pc = "notify"
    /\ LET me == proc[p]
           plan == notifyResultChanges(selectionsColl, queryOk,
                       me.pair[1], me.pair[2], me.cached[1].data,
                       me.fetched[1].data[1],
                       IF p \in ApiProcs THEN <<>>
                       ELSE me.fetched[1].splitcontrols)
       IN  proc' = [proc EXCEPT ![p].plan = plan,
                       ![p].pc = AfterDiff(plan)]
    /\ UNCHANGED <<now, cache, got, selectionsColl, upstream, sent, happened, diffVars, clientVars>>

\* one sendToFollowers call: every send is started, all are settled
Dispatch(p, rejected) ==
    /\ proc[p].pc = "dispatch"
    /\ LET me == proc[p]
           call == Head(me.plan)
           attempts == sendToFollowers(call.followers, call.payload, rejected)
       IN  /\ sent' = Count(sent, attempts, 1)
           /\ proc' = [proc EXCEPT ![p].plan = Tail(me.plan),
                          ![p].log = @ \o <<[call |-> call, attempts |-> attempts]>>,
                          ![p].pc = IF Len(me.plan) > 1 THEN "dispatch"
                                    ELSE "write"]
    /\ UNCHANGED <<now, cache, got, selectionsColl, upstream, happened, diffVars, clientVars>>

\* setCachedData of the fetched snapshot; the api then answers with it, the
\* sweep goes on with its next target
WriteCache(p, writeOk) ==
    /\ proc[p].pc = "write"
    /\ LET me == proc[p]
           r == me.fetched[1]
       IN  IF p \in ApiProcs
           THEN /\ cache' = setCachedData(cache, ApiCacheKey(me.pair), r.hash,
                                          r.data[1], now, writeOk)
                /\ proc' = [proc EXCEPT ![p] =
                      [me EXCEPT !.pc = "respond",
                          !.response = <<[status |-> r.status, hash |-> r.hash,
                                          data |-> r.data]>>]]
           ELSE /\ cache' = IF Truthy(r.hash)
                            THEN setCachedData(cache, SweepCacheKey(me.pair),
                                               r.hash, r.data[1], now, writeOk)
                            ELSE cache
                /\ proc' = [proc EXCEPT ![p] = NextTarget(me)]
    /\ UNCHANGED <<now, got, selectionsColl, upstream, sent, happened, diffVars, clientVars>>

\* the tokens of the sendToFollowers call a handler is about to make
Tokens(p) ==
    IF proc[p].plan = <<>> THEN {}
    ELSE LET fs == Head(proc[p].plan).followers
         IN  {fs[i].fcmToken : i \in 1..Len(fs)} \ {Undefined, Str("")}

\* the hashes a client can send back: none, the provider's current one, an
\* older one
ClientHashes(pair) ==
    {Undefined, HashOf(upstream[pair].version), HashOf(upstream[pair].version - 1)}

Environment ==
    \/ Tick
    \/ UpstreamSplit
    \/ UpstreamFinish
    \/ UpstreamDisqualify

\* no storage, provider or delivery failure
Next ==
    \/ Environment
    \/ \E p \in OneApi \cup SweepProcs :
          \/ \E h \in ClientHashes(PairH21) : ApiRequest(p, PairH21, h, TRUE)
          \/ ApiFetch(p, TRUE)
          \/ ApiRespond(p)
          \/ SweepStart(p)
          \/ SweepRead(p, TRUE)
          \/ SweepFetch(p, TRUE)
          \/ Notify(p, TRUE)
          \/ Dispatch(p, {})
          \/ WriteCache(p, TRUE)

Spec == Init /\ [][Next]_vars

\* only deliveries fail: FCM rejects any set of tokens
NextDelivery ==
    \/ Environment
    \/ \E p \in OneApi \cup SweepProcs :
          \/ \E h \in ClientHashes(PairH21) : ApiRequest(p, PairH21, h, TRUE)
          \/ ApiFetch(p, TRUE)
          \/ ApiRespond(p)
          \/ SweepStart(p)
          \/ SweepRead(p, TRUE)
          \/ SweepFetch(p, TRUE)
          \/ Notify(p, TRUE)
          \/ \E rejected \in SUBSET Tokens(p) : Dispatch(p, rejected)
          \/ WriteCache(p, TRUE)

SpecDelivery == Init /\ [][NextDelivery]_vars

\* the selections collections a sweep is run on, in query order: the
\* followers of two classes of one competition; three pairs interleaved, one
\* competition apart and one class apart; one pair outside the window of
\* start times; nobody inside the window
Follow(userId, pair, token, startTime) ==
    [userId |-> userId, competitionId |-> pair[1], className |-> pair[2],
     runnerName |-> Anton, fcmToken |-> Str(token), startTime |-> startTime]

FarStart == 10 * 60 * 60 * 1000

SweepSelections ==
    { SelectionDocs,
      << Follow("u5", PairD21, "tokenD", 0), Follow("u1", PairH21, "tokenA", 0),
         Follow("u7", PairOther, "tokenE", 0), Follow("u2", PairH21, "tokenB", 0),
         Follow("u8", PairD21, "tokenF", 0) >>,
      H21Docs \o << Follow("u5", PairD21, "tokenD", FarStart) >>,
      << Follow("u5", PairD21, "tokenD", FarStart),
         Follow("u1", PairH21, "tokenA", 0 - FarStart) >> }

InitSweep ==
    /\ \E docs \in SweepSelections : InitSysWith(docs)
    /\ InitDiffIdle

\* the scheduled sweep alone; the provider may fail on any fetch
NextSweep ==
    \/ Environment
    \/ \E p \in SweepProcs :
          \/ SweepStart(p)
          \/ SweepRead(p, TRUE)
          \/ \E ok \in BOOLEAN : SweepFetch(p, ok)
          \/ Notify(p, TRUE)
          \/ Dispatch(p, {})
          \/ WriteCache(p, TRUE)

SpecSweep == InitSweep /\ [][NextSweep]_vars

\* a sweep that has started runs on: the function, once invoked, executes
\* every await to its end
SweepRuns ==
    \E p \in SweepProcs :
        \/ SweepRead(p, TRUE)
        \/ \E ok \in BOOLEAN : SweepFetch(p, ok)
        \/ Notify(p, TRUE)
        \/ Dispatch(p, {})
        \/ WriteCache(p, TRUE)

SpecSweepFair == SpecSweep /\ WF_vars(SweepRuns)

\* the hashes a client can send back with getclasses
ClassesHashes ==
    {Undefined, HashOf(ClassesUpstream.version), HashOf(ClassesUpstream.version - 1)}

\* the api endpoint alone, class results and class list, no failure
NextApi ==
    \/ Environment
    \/ \E p \in OneApi :
          \/ \E h \in ClientHashes(PairH21) : ApiRequest(p, PairH21, h, TRUE)
          \/ ApiFetch(p, TRUE)
          \/ \E h \in ClassesHashes : ClassesRequest(p, CompId, h, TRUE)
          \/ ClassesFetch(p, TRUE)
          \/ ClassesWrite(p, TRUE)
          \/ ApiRespond(p)
          \/ Notify(p, TRUE)
          \/ Dispatch(p, {})
          \/ WriteCache(p, TRUE)

SpecApi == Init /\ [][NextApi]_vars

\* the sweep alone over the followers of H21 while the selections query of
\* notifyResultChanges may raise; no document expires
NextLookup ==
    \/ UpstreamSplit
    \/ UpstreamFinish
    \/ UpstreamDisqualify
    \/ \E p \in SweepProcs :
          \/ SweepStart(p)
          \/ SweepRead(p, TRUE)
          \/ SweepFetch(p, TRUE)
          \/ \E queryOk \in BOOLEAN : Notify(p, queryOk)
          \/ Dispatch(p, {})
          \/ WriteCache(p, TRUE)

SpecLookup == Init /\ [][NextLookup]_vars

\* a notification is repeated as long as its baseline cannot be replaced;
\* the count of sends per follower and event is capped
MaxSends == 2

SendsBelowMax == \A k \in DOMAIN sent : sent[k] < MaxSends

\* the api handler and the sweep over a cache whose reads and writes may
\* raise; the provider answers and the deliveries succeed
NextStorage ==
    \/ UpstreamSplit
    \/ UpstreamFinish
    \/ UpstreamDisqualify
    \/ \E p \in OneApi \cup SweepProcs :
          \/ \E h \in ClientHashes(PairH21), readOk \in BOOLEAN :
                ApiRequest(p, PairH21, h, readOk)
          \/ ApiFetch(p, TRUE)
          \/ ApiRespond(p)
          \/ SweepStart(p)
          \/ \E readOk \in BOOLEAN : SweepRead(p, readOk)
          \/ SweepFetch(p, TRUE)
          \/ Notify(p, TRUE)
          \/ SendsBelowMax /\ Dispatch(p, {})
          \/ \E writeOk \in BOOLEAN : WriteCache(p, writeOk)

SpecStorage == Init /\ [][NextStorage]_vars

\* the snapshots the provider may hold of H21 at the start: two runners, or
\* two entries of one name, the first of them finished
BeritDone ==
    Entry(Berit, 0, Num(100), <<Passed("1065", 25800, Str("1"), Num(0))>>,
          [place |-> Str("1"), result |-> Str("17:13"), timeplus |-> Str("+")])

ProviderSnapshots == { <<AntonStart, BeritStart>>, <<BeritDone, BeritStart>> }

\* the api handler's document of H21 is missing or was stored by an earlier
\* request
InitConcurrent ==
    /\ now = 0
    /\ got = <<>>
    /\ selectionsColl = H21Docs
    /\ \E snapshot \in ProviderSnapshots :
          /\ upstream = [pr \in Pairs |->
                IF pr = PairH21
                THEN [version |-> 1, results |-> snapshot,
                      splitcontrols |-> <<Control1065>>]
                ELSE [version |-> 1, results |-> <<AntonStart>>,
                      splitcontrols |-> <<>>]]
          /\ \E stored \in BOOLEAN :
                cache = IF stored
                        THEN setCachedData([k \in CacheKeys |-> <<>>],
                                 ApiCacheKey(PairH21), HashOf(1), snapshot, 0, TRUE)
                        ELSE [k \in CacheKeys |-> <<>>]
    /\ proc = [p \in Procs |-> Idle]
    /\ sent = <<>>
    /\ happened = {}
    /\ InitDiffIdle

\* two api requests for the class results of H21 served at the same time,
\* each up to its answer: their awaits interleave freely and no lock is
\* taken on the document
NextConcurrent ==
    \/ UpstreamSplit
    \/ UpstreamFinish
    \/ \E p \in ApiProcs :
          \/ \E h \in ClientHashes(PairH21) : ApiRequest(p, PairH21, h, TRUE)
          \/ ApiFetch(p, TRUE)
          \/ Notify(p, TRUE)
          \/ Dispatch(p, {})
          \/ WriteCache(p, TRUE)

SpecConcurrent == InitConcurrent /\ [][NextConcurrent]_vars

\* the api endpoint alone while the provider may fail on any fetch and any
\* statement of the handler may raise; a request that raises before its
\* write leaves the baseline, so the sends are capped
NextApiFault ==
    \/ Environment
    \/ \E p \in OneApi :
          \/ \E h \in ClientHashes(PairH21) : ApiRequest(p, PairH21, h, TRUE)
          \/ \E fetchOk \in BOOLEAN : ApiFetch(p, fetchOk)
          \/ ApiRaise(p)
          \/ ApiRespond(p)
          \/ Notify(p, TRUE)
          \/ SendsBelowMax /\ Dispatch(p, {})
          \/ WriteCache(p, TRUE)

SpecApiFault == Init /\ [][NextApiFault]_vars

----------------------------------------------------------------------------
(* SpecCache: setCachedData and getCachedData of the class-results          *)
(* documents of H21 under a clock of seconds.                               *)

MaxSeconds == 17

StoredVersions ==
    { [hash |-> HashOf(1), data |-> <<AntonStart, BeritStart>>],
      [hash |-> HashOf(2), data |-> <<AntonStart>>] }

MaxAges == {0, 15000, CLASS_RESULTS_TTL}

InitCache == InitSys /\ InitDiffIdle

CacheTick ==
    /\ now + 1000 <= MaxSeconds * 1000
    /\ now' = now + 1000
    /\ got' = <<>>
    /\ UNCHANGED <<cache, selectionsColl, upstream, proc, sent, happened, diffVars, clientVars>>

CacheSet(cacheKey, v, writeOk) ==
    /\ cache' = setCachedData(cache, cacheKey, v.hash, v.data, now, writeOk)
    /\ got' = <<>>
    /\ UNCHANGED <<now, selectionsColl, upstream, proc, sent, happened, diffVars, clientVars>>

CacheGet(cacheKey, ttlMs, readOk) ==
    /\ got' = <<[cacheKey |-> cacheKey, ttlMs |-> ttlMs, readOk |-> readOk,
                 result |-> getCachedData(cache, cacheKey, ttlMs, now, readOk)]>>
    /\ UNCHANGED <<now, cache, selectionsColl, upstream, proc, sent, happened, diffVars, clientVars>>

NextCache ==
    \/ CacheTick
    \/ \E k \in {ApiCacheKey(PairH21), SweepCacheKey(PairH21)}, ok \in BOOLEAN :
          \/ \E v \in StoredVersions : CacheSet(k, v, ok)
          \/ \E ttlMs \in MaxAges : CacheGet(k, ttlMs, ok)

SpecCache == InitCache /\ [][NextCache]_vars

----------------------------------------------------------------------------
(* SpecClient: one fetchFromAPI call (liveResultsClient.ts).  What the      *)
(* provider sends is a record: whether fetch() rejects, response.ok, the    *)
(* kind of body bytes, and what JSON5.parse yields from the decoded text.   *)

\* sanitizeControlCharacters: every control byte but HT, LF and CR becomes a
\* space; a JSON text broken only by such bytes becomes a clean one
sanitizeControlCharacters(raw) == IF raw = "control" THEN "clean" ELSE raw

\* JSON5.parse raises on a text that is not JSON5
ParseRaises(text) == text # "clean"

\* data[dataKey] || []
DataOf(body, dataKey) ==
    IF body.key = dataKey /\ body.payload # <<>> THEN body.payload[1] ELSE <<>>

\* data.status === "NOT MODIFIED"
MarkedNotModified(body) == body.status = Str("NOT MODIFIED")

\* fetchFromAPI: data is <<>> when the returned object has no data field
fetchFromAPI(response, dataKey) ==
    LET error == [status |-> "ERROR", hash |-> Undefined, data |-> << <<>> >>]
    IN  IF response.transport = "rejects" THEN error
        ELSE IF ~response.ok THEN error
        ELSE IF ParseRaises(sanitizeControlCharacters(response.raw)) THEN error
        ELSE IF response.isNull THEN error
        ELSE IF MarkedNotModified(response)
        THEN [status |-> "NOT MODIFIED", hash |-> response.hash, data |-> <<>>]
        ELSE [status |-> "OK", hash |-> response.hash,
              data |-> <<DataOf(response, dataKey)>>]

\* what can come back: the fields after ok describe the body
Responses ==
    [transport : {"rejects", "answers"},
     ok : BOOLEAN,
     raw : {"clean", "control", "garbage"},
     isNull : BOOLEAN,
     status : {Undefined, Str("OK"), Str("NOT MODIFIED"), Str("ERR")},
     hash : {Undefined, HashOf(1)},
     key : {"results", "classes"},
     payload : {<<>>, << <<>> >>, << <<AntonStart>> >>}]

InitClient == InitSys /\ InitDiffIdle

\* const response = await fetch(url.toString()): the request is sent
FetchStart(dataKey) ==
    /\ exchange = <<>>
    /\ exchange' = <<[state |-> "pending", dataKey |-> dataKey, response |-> <<>>]>>
    /\ UNCHANGED <<fetchResult, keyCalls, appVars, diffVars, sysVars>>

\* the provider answers, or the transport fails
ProviderAnswers(response) ==
    /\ exchange # <<>>
    /\ exchange[1].state = "pending"
    /\ exchange' = <<[exchange[1] EXCEPT !.state = "settled",
                                         !.response = <<response>>]>>
    /\ UNCHANGED <<fetchResult, keyCalls, appVars, diffVars, sysVars>>

\* the rest of fetchFromAPI once fetch() has settled
FetchReturn ==
    /\ exchange # <<>>
    /\ exchange[1].state = "settled"
    /\ fetchResult' = <<fetchFromAPI(exchange[1].response[1], exchange[1].dataKey)>>
    /\ exchange' = <<[exchange[1] EXCEPT !.state = "returned"]>>
    /\ UNCHANGED <<keyCalls, appVars, diffVars, sysVars>>

NextClient ==
    \/ \E dataKey \in {"results", "classes"} : FetchStart(dataKey)
    \/ \E response \in Responses : ProviderAnswers(response)
    \/ FetchReturn

SpecClient == InitClient /\ [][NextClient]_vars

----------------------------------------------------------------------------
(* SpecKey: getCacheKey on params objects whose properties were inserted    *)
(* in any order.                                                            *)

ParamValues ==
    [class : {"H21", "D21"}, comp : {"5", "10278"},
     method : {"getclassresults", "getclassresult"}]

ParamNames == {"class", "comp", "method"}

\* the object literals: some of the names, each once, in any order
ParamObjects ==
    UNION { { << <<a, v[a]>> >> : a \in ParamNames, v \in ParamValues },
            { << <<a, v[a]>>, <<b, v[b]>> >> :
                a \in ParamNames, b \in ParamNames, v \in ParamValues } ,
            { << <<a, v[a]>>, <<b, v[b]>>, <<c, v[c]>> >> :
                a \in ParamNames, b \in ParamNames, c \in ParamNames,
                v \in ParamValues } }

DistinctNames(params) ==
    \A i, j \in 1..Len(params) : params[i][1] = params[j][1] => i = j

MaxKeyCalls == 2

InitKey == InitSys /\ InitDiffIdle

KeyCall(params) ==
    /\ Len(keyCalls) < MaxKeyCalls
    /\ keyCalls' = Append(keyCalls, [params |-> params, key |-> getCacheKey(params)])
    /\ UNCHANGED <<exchange, fetchResult, appVars, diffVars, sysVars>>

NextKey == \E params \in ParamObjects : DistinctNames(params) /\ KeyCall(params)

SpecKey == InitKey /\ [][NextKey]_vars

----------------------------------------------------------------------------
(* SpecClean: the daily cleanCache job over documents written on            *)
(* different days.                                                          *)

MaxDays == 9

\* a day passes
DayTick ==
    /\ now + 24 * 60 * 60 * 1000 <= MaxDays * 24 * 60 * 60 * 1000
    /\ now' = now + 24 * 60 * 60 * 1000
    /\ UNCHANGED <<cache, got, selectionsColl, upstream, proc, sent, happened, diffVars, clientVars>>

\* some handler stores a document
DaySet(cacheKey) ==
    /\ cache' = setCachedData(cache, cacheKey, HashOf(1), <<AntonStart>>, now, TRUE)
    /\ UNCHANGED <<now, got, selectionsColl, upstream, proc, sent, happened, diffVars, clientVars>>

\* cleanCache: await cleanOldCache()
CleanCache(cleanOk) ==
    /\ cache' = cleanOldCache(cache, now, cleanOk)
    /\ UNCHANGED <<now, got, selectionsColl, upstream, proc, sent, happened, diffVars, clientVars>>

NextClean ==
    \/ DayTick
    \/ \E k \in {ApiCacheKey(PairH21), SweepCacheKey(PairH21), ClassesCacheKey(CompId)} :
          DaySet(k)
    \/ \E cleanOk \in BOOLEAN : CleanCache(cleanOk)

SpecClean == Init /\ [][NextClean]_vars

----------------------------------------------------------------------------
(* SpecOrder: one sweep over class H21 whose stored snapshot has Anton and  *)
(* Berit at the start and whose new snapshot has them in either order,      *)
(* each with any of the two radio controls passed, running or finished.     *)

TwoControls == { <<Control1065, Control1090>>, <<Control1090, Control1065>> }

SplitsOf(passed65, passed90) ==
    << (IF passed65 THEN Passed("1065", 26900, Str("2"), Num(1100))
        ELSE NotPassed("1065"))
       @@ (IF passed90 THEN Passed("1090", 51200, Str("1"), Num(0))
           ELSE NotPassed("1090")) >>

OnCourse(name) == Entry(name, 9, Num(0), SplitsOf(FALSE, FALSE), NoDisplay)

Progressed(name) ==
    { Entry(name, 9, Num(50), SplitsOf(a, b), NoDisplay) : a, b \in BOOLEAN }
    \cup { Entry(name, 0, Num(100), SplitsOf(a, b),
                 [place |-> Str("1"), result |-> Str("17:02"), timeplus |-> Str("+")]) :
             a, b \in BOOLEAN }

InitOrder ==
    /\ now = 0
    /\ got = <<>>
    /\ selectionsColl = H21Docs
    /\ cache = setCachedData([k \in CacheKeys |-> <<>>], SweepCacheKey(PairH21),
                             HashOf(1), <<OnCourse(Anton), OnCourse(Berit)>>, 0, TRUE)
    /\ \E a \in Progressed(Anton), b \in Progressed(Berit), sc \in TwoControls :
       \E results \in { <<a, b>>, <<b, a>> } :
          upstream = [pr \in Pairs |->
              IF pr = PairH21
              THEN [version |-> 2, results |-> results, splitcontrols |-> sc]
              ELSE [version |-> 1, results |-> <<AntonStart>>,
                    splitcontrols |-> <<>>]]
    /\ proc = [p \in Procs |-> Idle]
    /\ sent = <<>>
    /\ happened = {}
    /\ InitDiffIdle

\* the sweep alone; FCM rejects any set of tokens
NextOrder ==
    \E p \in SweepProcs :
        \/ SweepStart(p)
        \/ SweepRead(p, TRUE)
        \/ SweepFetch(p, TRUE)
        \/ Notify(p, TRUE)
        \/ \E rejected \in SUBSET Tokens(p) : Dispatch(p, rejected)
        \/ WriteCache(p, TRUE)

SpecOrder == InitOrder /\ [][NextOrder]_vars

----------------------------------------------------------------------------
(* SpecDetect: detectResultChanges on every pair of entries of one runner,  *)
(* then again on (new, new), as the next poll does when nothing changed.    *)

InitDetect ==
    /\ InitSys
    /\ InitClientIdle
    /\ oldResults \in {<<e>> : e \in DetectEntries}
    /\ newResults \in {<<e>> : e \in DetectEntries}
    /\ splitcontrols \in SplitControlVariants
    /\ payloads = <<>>
    /\ step = "start"

Detect ==
    /\ step = "start"
    /\ payloads' = detectResultChanges(oldResults[1], newResults[1],
                                       ClassName, CompId, splitcontrols)
    /\ step' = "diffed"
    /\ UNCHANGED <<oldResults, newResults, splitcontrols, sysVars, clientVars>>

\* the new entry has become the stored one and is diffed against itself
DetectAgain ==
    /\ step = "diffed"
    /\ oldResults' = newResults
    /\ payloads' = detectResultChanges(newResults[1], newResults[1],
                                       ClassName, CompId, splitcontrols)
    /\ step' = "rediffed"
    /\ UNCHANGED <<newResults, splitcontrols, sysVars, clientVars>>

NextDetect == Detect \/ DetectAgain

SpecDetect == InitDetect /\ [][NextDetect]_vars

----------------------------------------------------------------------------
(* SpecSplit: detectResultChanges on a runner that passes control 1065,     *)
(* over the values the provider can give for place and time behind.         *)

MaxBehind == 61100

\* the values of splits["1065_timeplus"]; <<>> stands for a key not set
BehindValues ==
    { <<Num(n)>> : n \in {0, 1, 99, 100, 1100, 5999, 6000, 36000, MaxBehind} }
    \cup { <<Str("")>>, <<Str("0")>>, <<Str("1100")>>, <<Str("+0:11")>>, <<>> }

PlaceValues == { <<Str("1")>>, <<Str("12")>>, <<Str("-")>>, <<Str("")>>, <<>> }

PassedWith(place, timeplus) ==
    ("1065" :> Num(26900)) @@ ("1065_status" :> Num(0))
    @@ (IF place = <<>> THEN EmptyObject ELSE ("1065_place" :> place[1]))
    @@ (IF timeplus = <<>> THEN EmptyObject ELSE ("1065_timeplus" :> timeplus[1]))

InitSplit ==
    /\ InitSys
    /\ InitClientIdle
    /\ oldResults = <<AntonStart>>
    /\ \E place \in PlaceValues, timeplus \in BehindValues :
          newResults = <<Entry(Anton, 0, Num(50), <<PassedWith(place, timeplus)>>,
                               NoDisplay)>>
    /\ splitcontrols \in SplitControlVariants
    /\ payloads = <<>>
    /\ step = "start"

SpecSplit == InitSplit /\ [][NextDetect]_vars

----------------------------------------------------------------------------
(* SpecMatch: notifyResultChanges over selections collections that hold    *)
(* subscriptions of other runners, classes and competitions and of names    *)
(* that differ from the runner's in case or by a trailing blank.            *)

Subscription(userId, pair, name, token) ==
    [userId |-> userId, competitionId |-> pair[1], className |-> pair[2],
     runnerName |-> name, fcmToken |-> token, startTime |-> 0]

MatchDocs ==
    << Subscription("u1", PairH21, Anton, Str("tokenA")),
       Subscription("u5", PairD21, Anton, Str("tokenD")),
       Subscription("u8", PairH21, "anton morkfors", Str("tokenF")),
       Subscription("u4", PairH21, Berit, Str("tokenC")),
       Subscription("u7", PairOther, Anton, Str("tokenE")),
       Subscription("u9", PairH21, "Anton Morkfors ", Str("tokenG")),
       Subscription("u3", PairH21, Anton, Undefined) >>

\* every selections collection made of some of the documents
MatchCollections ==
    { SelectSeq(MatchDocs, LAMBDA d : d.userId \in users) :
        users \in SUBSET {MatchDocs[i].userId : i \in 1..Len(MatchDocs)} }

FinishedEntry(name) ==
    Entry(name, 0, Num(100), <<NotPassed("1065")>>,
          [place |-> Str("1"), result |-> Str("17:02"), timeplus |-> Str("+")])

InitMatch ==
    /\ \E docs \in MatchCollections : InitSysWith(docs)
    /\ InitClientIdle
    /\ oldResults = <<AntonStart, BeritStart>>
    /\ newResults \in { <<FinishedEntry(Anton), BeritStart>>,
                         <<AntonStart, FinishedEntry(Berit)>>,
                         <<FinishedEntry(Anton), FinishedEntry(Berit)>> }
    /\ splitcontrols = <<Control1065>>
    /\ payloads = <<>>
    /\ step = "start"

\* the snapshots are those of the polled pair
Match(pair, queryOk) ==
    /\ step = "start"
    /\ payloads' = notifyResultChanges(selectionsColl, queryOk, pair[1], pair[2],
                                       oldResults, newResults, splitcontrols)
    /\ step' = "diffed"
    /\ UNCHANGED <<oldResults, newResults, splitcontrols, sysVars, clientVars>>

NextMatch == \E pair \in Pairs, queryOk \in BOOLEAN : Match(pair, queryOk)

SpecMatch == InitMatch /\ [][NextMatch]_vars

----------------------------------------------------------------------------
(* SpecFollow: addSelection and removeSelection of the app                  *)
(* (services/selections.ts) called by one user.  A runner name is the       *)
(* sequence of its characters; subscriptions maps the id of every document  *)
(* of the selections collection to its data.                                *)

AlphaNum ==
    {"a","b","c","d","e","f","g","h","i","j","k","l","m","n","o","p","q","r",
     "s","t","u","v","w","x","y","z","A","B","C","D","E","F","G","H","I","J",
     "K","L","M","N","O","P","Q","R","S","T","U","V","W","X","Y","Z",
     "0","1","2","3","4","5","6","7","8","9"}

\* runnerName.replace(/[^a-zA-Z0-9]/g, '_')
ReplaceNonAlphaNum(name) ==
    [i \in 1..Len(name) |-> IF name[i] \in AlphaNum THEN name[i] ELSE "_"]

\* `${userId}-${competitionId}-${className}-${...}`
SelectionId(userId, competitionId, className, runnerName) ==
    <<userId, "-", competitionId, "-", className, "-">>
    \o ReplaceNonAlphaNum(runnerName)

AppUser == "u1"

AnnMariHyphen == <<"A","n","n","-","M","a","r","i">>
AnnMariBlank == <<"A","n","n"," ","M","a","r","i">>
BoEk == <<"B","o","E","k">>
AppRunners == {AnnMariHyphen, AnnMariBlank, BoEk}
AppClasses == {ClassName, "D21"}

InitFollow == InitSys /\ InitDiffIdle

\* addSelection: setDoc(docRef, data) replaces the document of the id; a
\* write that raises leaves the collection and, by the caller's rollback,
\* the followed list as they were
AddSelection(className, runnerName, writeOk) ==
    /\ <<CompId, className, runnerName>> \notin following
    /\ LET id == SelectionId(AppUser, CompId, className, runnerName)
           data == [userId |-> AppUser, competitionId |-> CompId,
                    className |-> className, runnerName |-> runnerName,
                    fcmToken |-> Str("tokenA")]
       IN  IF writeOk
           THEN /\ subscriptions' = (id :> data) @@ subscriptions
                /\ following' = following \cup {<<CompId, className, runnerName>>}
           ELSE UNCHANGED <<subscriptions, following>>
    /\ UNCHANGED <<exchange, fetchResult, keyCalls, buffer, polls, diffVars, sysVars>>

\* addSelection called again for a runner already followed (another device
\* of the user, a reload before loadSelections returns)
AddSelectionAgain(className, runnerName) ==
    /\ <<CompId, className, runnerName>> \in following
    /\ LET id == SelectionId(AppUser, CompId, className, runnerName)
           data == [userId |-> AppUser, competitionId |-> CompId,
                    className |-> className, runnerName |-> runnerName,
                    fcmToken |-> Str("tokenA")]
       IN  subscriptions' = (id :> data) @@ subscriptions
    /\ UNCHANGED <<following, exchange, fetchResult, keyCalls, buffer, polls, diffVars, sysVars>>

\* removeSelection: deleteDoc(docRef)
RemoveSelection(className, runnerName) ==
    /\ <<CompId, className, runnerName>> \in following
    /\ LET id == SelectionId(AppUser, CompId, className, runnerName)
       IN  subscriptions' = [i \in DOMAIN subscriptions \ {id} |-> subscriptions[i]]
    /\ following' = following \ {<<CompId, className, runnerName>>}
    /\ UNCHANGED <<exchange, fetchResult, keyCalls, buffer, polls, diffVars, sysVars>>

NextFollow ==
    \E className \in AppClasses, runnerName \in AppRunners :
        \/ \E writeOk \in BOOLEAN : AddSelection(className, runnerName, writeOk)
        \/ AddSelectionAgain(className, runnerName)
        \/ RemoveSelection(className, runnerName)

SpecFollow == InitFollow /\ [][NextFollow]_vars

----------------------------------------------------------------------------
(* SpecWindow: the sweep run every half hour over subscriptions whose       *)
(* start times lie 10 ms apart around 01:00 UTC of the competition day.     *)

MaxHalfHours == 9

\* calculateStartTime: midnight UTC of the competition date plus the start
\* in centiseconds since midnight CET, shifted by the offset from CET
calculateStartTime(dateMs, runnerStart, timediff) ==
    dateMs + runnerStart * 10 + (timediff - 1) * 3600000

StartingAt(userId, pair, token, runnerStart) ==
    [userId |-> userId, competitionId |-> pair[1], className |-> pair[2],
     runnerName |-> Anton, fcmToken |-> Str(token),
     startTime |-> calculateStartTime(0, runnerStart, 0)]

\* starts at 02:00:00.00 CET, one centisecond later and one earlier
WindowSelections ==
    << StartingAt("u1", PairH21, "tokenA", 720000),
       StartingAt("u5", PairD21, "tokenD", 720001),
       StartingAt("u7", PairOther, "tokenE", 719999),
       StartingAt("u2", PairH21, "tokenB", 720000) >>

InitWindow ==
    /\ \E users \in SUBSET {"u1", "u5", "u7", "u2"} :
          InitSysWith(SelectSeq(WindowSelections, LAMBDA d : d.userId \in users))
    /\ InitDiffIdle

\* half an hour passes between two runs of the schedule
HalfHour ==
    /\ \A p \in SweepProcs : proc[p].pc = "idle"
    /\ now + 30 * 60 * 1000 <= MaxHalfHours * 30 * 60 * 1000
    /\ now' = now + 30 * 60 * 1000
    /\ UNCHANGED <<cache, got, selectionsColl, upstream, proc, sent, happened, diffVars, clientVars>>

NextWindow ==
    \/ HalfHour
    \/ \E p \in SweepProcs :
          \/ SweepStart(p)
          \/ SweepRead(p, TRUE)
          \/ \E ok \in BOOLEAN : SweepFetch(p, ok)
          \/ WriteCache(p, TRUE)

SpecWindow == InitWindow /\ [][NextWindow]_vars

----------------------------------------------------------------------------
(* SpecAggregate: the api cases getcompetitions, getclubs and               *)
(* getrunnersforclub, whose token is Date.now().toString().  The clock      *)
(* counts milliseconds; the field pair of a request holds the competition   *)
(* and the club asked for.                                                  *)

MaxMillis == 2

COMPETITIONS_TTL == 6 * 60 * 60 * 1000
CLUBS_TTL == 15 * 60 * 1000
CLUB_RUNNERS_TTL == 15 * 60 * 1000

Linne == "OK Linne"
Lidingo == "IFK Lidingo"
Ravinen == "OK Ravinen"

\* the provider's class results with the club of every runner; "" is a
\* runner without club
ClubEntries(className) ==
    IF className = ClassName
    THEN << [name |-> Berit, club |-> Lidingo], [name |-> Anton, club |-> Linne],
            [name |-> "Carl Ek", club |-> ""] >>
    ELSE << [name |-> "Dora Dahl", club |-> Linne], [name |-> "Eva Ek", club |-> Linne],
            [name |-> "Frida Falk", club |-> Lidingo] >>

CompetitionsList == << [id |-> CompId, name |-> "Nattcupen"] >>

AggregateMethods == {"getcompetitions", "getclubs", "getrunnersforclub"}

AggregateKey(method, pair) ==
    CASE method = "getcompetitions" -> getCacheKey(<< <<"method", method>> >>)
      [] method = "getclubs" ->
            getCacheKey(<< <<"method", method>>, <<"comp", pair[1]>> >>)
      [] OTHER ->
            getCacheKey(<< <<"method", method>>, <<"comp", pair[1]>>,
                           <<"club", pair[2]>> >>)

AggregateTtl(method) ==
    CASE method = "getcompetitions" -> COMPETITIONS_TTL
      [] method = "getclubs" -> CLUBS_TTL
      [] OTHER -> CLUB_RUNNERS_TTL

AggregateQueries ==
    { <<"getcompetitions", <<"", "">> >>, <<"getclubs", <<CompId, "">> >> }
    \cup { <<"getrunnersforclub", <<CompId, club>> >> : club \in {Linne, Lidingo, Ravinen} }

AggregateKeys == { AggregateKey(q[1], q[2]) : q \in AggregateQueries }

\* clubMap.set(entry.club, (clubMap.get(entry.club) || 0) + 1) for every
\* entry with a club; the map is a sequence in insertion order
RECURSIVE CountClubs(_, _, _)
CountClubs(clubMap, entries, i) ==
    IF i > Len(entries) THEN clubMap
    ELSE LET club == entries[i].club
             at == {j \in 1..Len(clubMap) : clubMap[j].name = club}
             next == IF club = "" THEN clubMap
                     ELSE IF at = {}
                     THEN clubMap \o <<[name |-> club, runners |-> 1]>>
                     ELSE [j \in 1..Len(clubMap) |->
                              IF j \in at
                              THEN [clubMap[j] EXCEPT !.runners = @ + 1]
                              ELSE clubMap[j]]
         IN  CountClubs(next, entries, i + 1)

\* .sort((a, b) => b.runners - a.runners): descending, equal counts keep
\* their order
RECURSIVE SortByRunners(_)
SortByRunners(clubs) ==
    IF clubs = <<>> THEN <<>>
    ELSE LET top == CHOOSE j \in 1..Len(clubs) :
                        /\ \A k \in 1..Len(clubs) : clubs[k].runners <= clubs[j].runners
                        /\ \A k \in 1..(j - 1) : clubs[k].runners < clubs[j].runners
         IN  <<clubs[top]>>
             \o SortByRunners(SubSeq(clubs, 1, top - 1)
                              \o SubSeq(clubs, top + 1, Len(clubs)))

\* the loop over the classes of case getclubs; failing is the set of
\* classes whose fetchClassResults does not answer OK
RECURSIVE ClubLoopUntilFailure(_, _, _, _)
ClubLoopUntilFailure(classes, failing, clubMap, i) ==
    IF i > Len(classes) \/ classes[i] \in failing THEN clubMap
    ELSE ClubLoopUntilFailure(classes, failing,
             CountClubs(clubMap, ClubEntries(classes[i]), 1), i + 1)

RECURSIVE ClubLoop(_, _, _, _)
ClubLoop(classes, failing, clubMap, i) ==
    IF i > Len(classes) THEN clubMap
    ELSE ClubLoop(classes, failing,
             IF classes[i] \in failing THEN clubMap
             ELSE CountClubs(clubMap, ClubEntries(classes[i]), 1),
             i + 1)

\* the loop over the classes of case getrunnersforclub
RECURSIVE ClubRunnersLoop(_, _, _, _)
ClubRunnersLoop(classes, failing, clubName, i) ==
    IF i > Len(classes) THEN <<>>
    ELSE LET classRunners == SelectSeq(ClubEntries(classes[i]),
                                       LAMBDA entry : entry.club = clubName)
             here == IF classes[i] \in failing THEN <<>>
                     ELSE [j \in 1..Len(classRunners) |->
                              [name |-> classRunners[j].name,
                               club |-> classRunners[j].club,
                               className |-> classes[i]]]
         IN  here \o ClubRunnersLoop(classes, failing, clubName, i + 1)

\* what a request gathers from the provider: <<>> when the competitions or
\* the class list cannot be fetched, otherwise <<data>>
Gathered(method, pair, listOk, failing) ==
    IF ~listOk THEN <<>>
    ELSE CASE method = "getcompetitions" -> <<CompetitionsList>>
           [] method = "getclubs" ->
                 <<SortByRunners(ClubLoop(ClassesUpstream.results, failing, <<>>, 1))>>
           [] OTHER ->
                 <<ClubRunnersLoop(ClassesUpstream.results, failing, pair[2], 1)>>

\* the statuses of the fetches a request makes: the list, then every class
FetchStatuses(method, pair, listOk, failing) ==
    <<[pair |-> <<pair[1], "">>, status |-> IF listOk THEN "OK" ELSE "ERROR"]>>
    \o (IF listOk /\ method # "getcompetitions"
        THEN [i \in 1..Len(ClassesUpstream.results) |->
                 [pair |-> <<pair[1], ClassesUpstream.results[i]>>,
                  status |-> IF ClassesUpstream.results[i] \in failing
                             THEN "ERROR" ELSE "OK"]]
        ELSE <<>>)

\* Date.now().toString()
ClockToken(t) == Str(ToString(t))

InitAggregate ==
    /\ now = 0
    /\ cache = [k \in CacheKeys \cup AggregateKeys |-> <<>>]
    /\ got = <<>>
    /\ selectionsColl = H21Docs
    /\ upstream = [pr \in Pairs |->
          [version |-> 1, results |-> <<AntonStart>>, splitcontrols |-> <<>>]]
    /\ proc = [p \in Procs |-> Idle]
    /\ sent = <<>>
    /\ happened = {}
    /\ InitDiffIdle

\* a millisecond passes
Millisecond ==
    /\ now < MaxMillis
    /\ now' = now + 1
    /\ UNCHANGED <<cache, got, selectionsColl, upstream, proc, sent, happened, diffVars, clientVars>>

\* the cache lookup of the three cases; only getcompetitions has the NOT
\* MODIFIED shortcut
AggregateRequest(p, method, pair, lastHash, readOk) ==
    /\ p \in ApiProcs
    /\ proc[p].pc = "idle"
    /\ LET cached == getCachedData(cache, AggregateKey(method, pair),
                                   AggregateTtl(method), now, readOk)
           me == [Idle EXCEPT !.method = method, !.pair = pair,
                              !.lastHash = lastHash]
       IN  proc' = [proc EXCEPT ![p] =
              IF method = "getcompetitions" /\ CacheHitNotModified(cached, lastHash)
              THEN [me EXCEPT !.pc = "respond",
                       !.response = <<[status |-> "NOT MODIFIED",
                                       hash |-> cached[1].hash,
                                       data |-> <<>>]>>]
              ELSE IF cached # <<>>
              THEN [me EXCEPT !.pc = "respond", !.cached = cached,
                       !.response = <<[status |-> "OK",
                                       hash |-> cached[1].hash,
                                       data |-> <<cached[1].data>>]>>]
              ELSE [me EXCEPT !.pc = "gather"]]
    /\ UNCHANGED <<now, cache, got, selectionsColl, upstream, sent, happened, diffVars, clientVars>>

\* fetchCompetitions, or fetchClasses and the loop over the classes
AggregateGather(p, listOk, failing) ==
    /\ p \in ApiProcs
    /\ proc[p].pc = "gather"
    /\ LET me == proc[p]
           data == Gathered(me.method, me.pair, listOk, failing)
           mine == [me EXCEPT !.polled =
                       FetchStatuses(me.method, me.pair, listOk, failing)]
       IN  proc' = [proc EXCEPT ![p] =
              IF data = <<>>
              THEN [mine EXCEPT !.pc = "respond",
                       !.response = <<[status |-> "500", hash |-> Undefined,
                                       data |-> <<>>]>>]
              ELSE [mine EXCEPT !.pc = "store",
                       !.fetched = <<[status |-> "OK", hash |-> Undefined,
                                      data |-> data, splitcontrols |-> <<>>]>>]]
    /\ UNCHANGED <<now, cache, got, selectionsColl, upstream, sent, happened, diffVars, clientVars>>

\* await setCachedData(cacheKey, Date.now().toString(), data)
AggregateStore(p, writeOk) ==
    /\ p \in ApiProcs
    /\ proc[p].pc = "store"
    /\ LET me == proc[p]
       IN  /\ cache' = setCachedData(cache, AggregateKey(me.method, me.pair),
                                     ClockToken(now), me.fetched[1].data[1],
                                     now, writeOk)
           /\ proc' = [proc EXCEPT ![p].pc = "answer",
                                   ![p].fetched[1].hash = ClockToken(now)]
    /\ UNCHANGED <<now, got, selectionsColl, upstream, sent, happened, diffVars, clientVars>>

\* res.json({status: "OK", hash: Date.now().toString(), data})
AggregateAnswer(p) ==
    /\ p \in ApiProcs
    /\ proc[p].pc = "answer"
    /\ proc' = [proc EXCEPT ![p].pc = "respond",
                            ![p].response = <<[status |-> "OK",
                                               hash |-> ClockToken(now),
                                               data |-> proc[p].fetched[1].data]>>]
    /\ UNCHANGED <<now, cache, got, selectionsColl, upstream, sent, happened, diffVars, clientVars>>

\* the queries have a document each; a run stays with the query whose
\* document it has stored
OnlyDocumentOf(q) ==
    \A k \in AggregateKeys \ {AggregateKey(q[1], q[2])} : cache[k] = <<>>

NextAggregate ==
    \/ Millisecond
    \/ \E p \in OneApi :
          \/ \E q \in AggregateQueries, readOk \in BOOLEAN :
             \E lastHash \in {Undefined} \cup {ClockToken(t) : t \in 0..now} :
                /\ OnlyDocumentOf(q)
                /\ AggregateRequest(p, q[1], q[2], lastHash, readOk)
          \/ \E listOk \in BOOLEAN :
             \E failing \in SUBSET {ClassesUpstream.results[i] :
                                      i \in 1..Len(ClassesUpstream.results)} :
                AggregateGather(p, listOk, failing)
          \/ \E writeOk \in BOOLEAN : AggregateStore(p, writeOk)
          \/ AggregateAnswer(p)
          \/ ApiRespond(p)

SpecAggregate == InitAggregate /\ [][NextAggregate]_vars

----------------------------------------------------------------------------
(* SpecSanitize: sanitizeControlCharacters byte by byte.  A Uint8Array is   *)
(* a sequence of numbers 0..255; the function writes into the array passed. *)

MaxBytes == 2

\* every control byte, the first bytes after them, DEL and two high bytes
ByteSamples == (0..33) \cup {127, 128, 255}

\* the body of the loop: what uint8Array[i] holds after it
SanitizeByteAllControls(byte) == IF byte < 32 THEN 32 ELSE byte

SanitizeByte(byte) ==
    IF byte < 32 /\ byte # 9 /\ byte # 10 /\ byte # 13 THEN 32 ELSE byte

\* for (let i = 0; i < uint8Array.length; i++)
SanitizedArray(uint8Array) ==
    [i \in 1..Len(uint8Array) |-> SanitizeByte(uint8Array[i])]

InitSanitize == InitSys /\ InitDiffIdle

\* the function is called on the body of a response
SanitizeCall(uint8Array) ==
    /\ buffer = <<>>
    /\ buffer' = <<[first |-> uint8Array, passed |-> uint8Array,
                    returned |-> SanitizedArray(uint8Array), calls |-> 1]>>
    /\ UNCHANGED <<exchange, fetchResult, keyCalls, subscriptions, following, polls, diffVars, sysVars>>

\* the function is called on the array it has written
SanitizeAgain ==
    /\ buffer # <<>>
    /\ buffer[1].calls = 1
    /\ buffer' = <<[first |-> buffer[1].first, passed |-> buffer[1].returned,
                    returned |-> SanitizedArray(buffer[1].returned), calls |-> 2]>>
    /\ UNCHANGED <<exchange, fetchResult, keyCalls, subscriptions, following, polls, diffVars, sysVars>>

NextSanitize ==
    \/ \E n \in 0..MaxBytes : \E uint8Array \in [1..n -> ByteSamples] :
          SanitizeCall(uint8Array)
    \/ SanitizeAgain

SpecSanitize == InitSanitize /\ [][NextSanitize]_vars

----------------------------------------------------------------------------
(* SpecPolls: the snapshots of class H21 diffed poll by poll, each against  *)
(* the one stored by the poll before; the provider's progress of Anton may  *)
(* go down as well as up.                                                   *)

MaxPolls == 3

PollEntries ==
    { Entry(Anton, status, progress, <<NotPassed("1065")>>,
            IF status = 0 /\ progress = Num(100)
            THEN [place |-> Str("1"), result |-> Str("17:02"), timeplus |-> Str("+")]
            ELSE NoDisplay) :
        status \in {0, 4, 9}, progress \in {Undefined, Num(0), Num(80), Num(100)} }

InitPolls ==
    /\ InitSys
    /\ InitClientIdle
    /\ oldResults = <<AntonStart, BeritStart>>
    /\ newResults = <<AntonStart, BeritStart>>
    /\ splitcontrols = <<Control1065>>
    /\ payloads = <<>>
    /\ step = "start"

\* one poll: the fetched snapshot is diffed against the stored one and
\* stored in its place
PollSnapshot(anton) ==
    /\ Len(polls) < MaxPolls
    /\ LET next == <<anton, BeritStart>>
           calls == notifyResultChanges(SelectionDocs, TRUE, CompId, ClassName,
                                        oldResults, next, splitcontrols)
       IN  /\ payloads' = calls
           /\ oldResults' = next
           /\ newResults' = next
           /\ polls' = Append(polls, [old |-> oldResults[1], new |-> anton,
                                      calls |-> calls])
    /\ step' = "diffed"
    /\ UNCHANGED <<splitcontrols, exchange, fetchResult, keyCalls, subscriptions,
                   following, buffer, sysVars>>

NextPolls == \E anton \in PollEntries : PollSnapshot(anton)

SpecPolls == InitPolls /\ [][NextPolls]_vars

----------------------------------------------------------------------------
(* SpecDiff: notifyResultChanges on whole snapshots, entries of the same    *)
(* name included.                                                           *)

MaxRunners == 2

SnapshotEntries ==
    { Entry(Anton, 0, Num(80), <<NotPassed("1065")>>, CHOOSE d \in Displays : d.result = Str("")),
      Entry(Anton, 0, Num(80), <<Passed("1065", 26900, Str("2"), Num(1100))>>,
            CHOOSE d \in Displays : d.result = Str("")),
      Entry(Anton, 0, Num(100), <<Passed("1065", 26900, Str("2"), Num(1100))>>,
            CHOOSE d \in Displays : d.result = Str("17:02")),
      Entry(Anton, 4, Num(80), <<NotPassed("1065")>>, CHOOSE d \in Displays : d.result = Str("")),
      Entry(Berit, 9, Undefined, <<>>, CHOOSE d \in Displays : d.result = Str("")),
      Entry(Berit, 0, Num(100), <<Passed("1065", 25800, Str("1"), Num(0))>>,
            CHOOSE d \in Displays : d.result = Str("17:13")) }

Snapshots == UNION { [1..n -> SnapshotEntries] : n \in 0..MaxRunners }

InitDiff ==
    /\ InitSys
    /\ InitClientIdle
    /\ oldResults \in Snapshots
    /\ newResults \in Snapshots
    /\ splitcontrols \in SplitControlVariants
    /\ payloads = <<>>
    /\ step = "start"

Diff ==
    /\ step = "start"
    /\ payloads' = notifyResultChanges(SelectionDocs, TRUE, CompId, ClassName,
                                       oldResults, newResults, splitcontrols)
    /\ step' = "diffed"
    /\ UNCHANGED <<oldResults, newResults, splitcontrols, sysVars, clientVars>>

\* the new snapshot has become the stored one and is diffed against itself
DiffAgain ==
    /\ step = "diffed"
    /\ oldResults' = newResults
    /\ payloads' = notifyResultChanges(SelectionDocs, TRUE, CompId, ClassName,
                                       newResults, newResults, splitcontrols)
    /\ step' = "rediffed"
    /\ UNCHANGED <<newResults, splitcontrols, sysVars, clientVars>>

NextDiff == Diff \/ DiffAgain

SpecDiff == InitDiff /\ [][NextDiff]_vars

----------------------------------------------------------------------------
(* SpecPaths: the notifyResultChanges call of the api handler and the one   *)
(* of the sweep on the same cached and fetched snapshots.                   *)

\* api, case getclassresults: notifyResultChanges(compId.toString(),
\* className, cached.data, resultsResult.data)
ApiNotifyCall(docs, pair, old, new) ==
    notifyResultChanges(docs, TRUE, pair[1], pair[2], old, new, <<>>)

\* pollActiveSelections: notifyResultChanges(target.compId,
\* target.className, oldResults, newResults, resultsResult.splitcontrols)
SweepNotifyCall(docs, pair, old, new, sc) ==
    notifyResultChanges(docs, TRUE, pair[1], pair[2], old, new, sc)

InitPaths ==
    /\ InitSys
    /\ InitClientIdle
    /\ oldResults \in Snapshots
    /\ newResults \in Snapshots
    /\ splitcontrols \in SplitControlVariants
    /\ payloads = <<>>
    /\ step = "start"

\* both handlers diff the same snapshots for the same selections
BothPaths ==
    /\ step = "start"
    /\ oldResults # <<>>
    /\ payloads' = [api |-> ApiNotifyCall(SelectionDocs, PairH21,
                                          oldResults, newResults),
                    sweep |-> SweepNotifyCall(SelectionDocs, PairH21,
                                  oldResults, newResults, splitcontrols)]
    /\ step' = "compared"
    /\ UNCHANGED <<oldResults, newResults, splitcontrols, sysVars, clientVars>>

\* the fetched snapshot is the cached one at the next poll
BothPathsAgain ==
    /\ step = "compared"
    /\ oldResults' = newResults
    /\ newResults # <<>>
    /\ payloads' = [api |-> ApiNotifyCall(SelectionDocs, PairH21,
                                          newResults, newResults),
                    sweep |-> SweepNotifyCall(SelectionDocs, PairH21,
                                  newResults, newResults, splitcontrols)]
    /\ step' = "recompared"
    /\ UNCHANGED <<newResults, splitcontrols, sysVars, clientVars>>

NextPaths == BothPaths \/ BothPathsAgain

SpecPaths == InitPaths /\ [][NextPaths]_vars

----------------------------------------------------------------------------
(* Properties of the diff.                                                  *)

\* how many payloads of a list are of one type
CountType(ps, t) == Cardinality({i \in 1..Len(ps) : ps[i].data.type = t})

\* the progress of an entry as the claims read it: missing counts as 0
ProgressOf(r) == IF r.progress = Undefined THEN 0 ELSE r.progress[2]

\* the finish threshold is crossed between the two entries
Crossed(o, n) == ProgressOf(o) < 100 /\ ProgressOf(n) >= 100

NotStartedYet(status) == status \in {9, 10}

\* the texts a notification is expected to carry
PlaceText(place) ==
    CASE place = Str("1") -> ", 1st place"
      [] place = Str("2") -> ", 2nd place"
      [] OTHER -> ""

BehindText(timeplus) ==
    CASE timeplus = Num(0) -> " (leading!)"
      [] timeplus = Num(1100) -> " (+0:11)"
      [] OTHER -> ""

WinnerGapText(timeplus) ==
    CASE timeplus = Str("+0:11") -> " (+0:11)"
      [] OTHER -> ""

C3_SelfDiffEmpty ==
    (step = "diffed" /\ oldResults = newResults) => payloads = <<>>

\* C3 failing input: a snapshot with two entries named Berit Berg, the
\* first finished and the second not started, diffed against itself, produces
\* a finish notification.
C3_Witness ==
    /\ step = "diffed"
    /\ oldResults = newResults
    /\ Len(newResults) = 2
    /\ newResults[1].name = Berit /\ newResults[2].name = Berit
    /\ CountType([i \in 1..Len(payloads) |-> payloads[i].payload], "finish") = 1

\* C4: for one runner's old and new entry, a finish payload is produced iff
\* the progress goes from below 100 (missing = 0) to at least 100 and the new
\* status is 0, whatever the old status; then there is exactly one, its body
\* is the new result and place, and there is no status payload.
C4_FinishedIff ==
    step = "diffed" =>
        LET o == oldResults[1]
            n == newResults[1]
        IN  IF Crossed(o, n) /\ n.status = 0
            THEN /\ CountType(payloads, "finish") = 1
                 /\ CountType(payloads, "status") = 0
                 /\ \E i \in 1..Len(payloads) :
                       /\ payloads[i].data.type = "finish"
                       /\ payloads[i].data.runnerName = n.name
                       /\ payloads[i].body =
                              n.name \o " finished in " \o n.result[2]
                              \o PlaceText(n.place) \o WinnerGapText(n.timeplus)
            ELSE CountType(payloads, "finish") = 0

\* C4 witness: not-started (9) -> OK (0) at progress 100, result 17:02, 1st.
C4_Witness ==
    /\ step = "diffed"
    /\ oldResults[1].status = 9
    /\ oldResults[1].progress = Undefined
    /\ newResults[1].status = 0
    /\ newResults[1].progress = Num(100)
    /\ newResults[1].result = Str("17:02")
    /\ CountType(payloads, "finish") = 1

\* C5: crossing the finish threshold with a status other than 0 produces
\* exactly one status payload and no finish payload; no pair of entries
\* produces more than one payload out of finish and status.
C5_ProblemFinishExclusive ==
    step = "diffed" =>
        LET o == oldResults[1]
            n == newResults[1]
        IN  /\ (Crossed(o, n) /\ n.status # 0) =>
                  /\ CountType(payloads, "status") = 1
                  /\ CountType(payloads, "finish") = 0
            /\ CountType(payloads, "status") + CountType(payloads, "finish") <= 1

\* C5 witness: 80 -> 100 while the status goes from OK to disqualified.
C5_Witness ==
    /\ step = "diffed"
    /\ oldResults[1].status = 0
    /\ oldResults[1].progress = Num(80)
    /\ newResults[1].status = 4
    /\ newResults[1].progress = Num(100)
    /\ CountType(payloads, "status") = 1

\* C6 (as claimed): a status payload is produced only (a) on crossing the
\* finish threshold with a terminal problem status or (b) on a change of
\* status to a code other than 0, 9, 10 without crossing; it never carries a
\* not-started-yet code, and an unchanged problem status produces none.
C6_StatusProblemOnly ==
    step = "diffed" =>
        LET o == oldResults[1]
            n == newResults[1]
        IN  CountType(payloads, "status") > 0 =>
                /\ \/ Crossed(o, n) /\ n.status # 0 /\ ~NotStartedYet(n.status)
                   \/ /\ o.status # n.status
                      /\ n.status # 0
                      /\ ~NotStartedYet(n.status)
                      /\ ~Crossed(o, n)
                /\ ~NotStartedYet(n.status)
                /\ o.status # n.status

\* C6 failing input: the new entry has progress 100 and the not-started
\* code 9 while the old one was below 100, and a status payload titled
\* "Not Started" is produced.
C6_Witness ==
    /\ step = "diffed"
    /\ Crossed(oldResults[1], newResults[1])
    /\ newResults[1].status = 9
    /\ \E i \in 1..Len(payloads) :
          /\ payloads[i].data.type = "status"
          /\ payloads[i].title = ClassName \o " -- Not Started"

\* C7: for a control of the metadata, a split payload of that control is
\* produced iff its split is absent or "" in the old entry and present and
\* not "" in the new one; then there is exactly one, its body carries the new
\* place and time behind at the split; the diff of (new, new) produces none.
C7_SplitArrivedIff ==
    /\ step = "diffed" =>
          LET o == oldResults[1]
              n == newResults[1]
          IN  \A k \in 1..Len(splitcontrols) :
                LET c == splitcontrols[k].code
                    had == o.splits # <<>> /\ c \in DOMAIN o.splits[1]
                               /\ o.splits[1][c] # Str("")
                    has == n.splits # <<>> /\ c \in DOMAIN n.splits[1]
                               /\ n.splits[1][c] # Str("")
                    mine == {i \in 1..Len(payloads) :
                                /\ payloads[i].data.type = "split"
                                /\ payloads[i].data.control = c}
                IN  IF ~had /\ has
                    THEN /\ Cardinality(mine) = 1
                         /\ \A i \in mine :
                               payloads[i].body =
                                   n.name \o " passed " \o splitcontrols[k].name
                                   \o PlaceText(Prop(n.splits[1], c \o "_place"))
                                   \o BehindText(Prop(n.splits[1], c \o "_timeplus"))
                    ELSE mine = {}
    /\ step = "rediffed" => CountType(payloads, "split") = 0

\* C7 witness: control 1065 was "" and is now 26900 cs, 2nd, 11 s behind,
\* and the diff of (new, new) has been made after it.
C7_Witness ==
    /\ step = "rediffed"
    /\ splitcontrols = <<Control1065>>
    /\ newResults[1].splits = <<Passed("1065", 26900, Str("2"), Num(1100))>>
    /\ payloads = <<>>

----------------------------------------------------------------------------
(* Properties of the dispatch and of the coordinators.                      *)

\* the followers of a runner of H21 that have a token
TokenFollowers(name) ==
    {i \in 1..Len(selectionsColl) :
        /\ selectionsColl[i].runnerName = name
        /\ selectionsColl[i].className = ClassName
        /\ selectionsColl[i].fcmToken \notin {Undefined, Str("")}}

\* how often a follower was sent the notification of an event
Deliveries(userId, e) ==
    IF <<userId, e>> \in DOMAIN sent THEN sent[<<userId, e>>] ELSE 0

\* a stored snapshot shows the effect of an event on its runner
Shows(data, e) ==
    \E i \in 1..Len(data) :
        /\ data[i].name = e.runnerName
        /\ CASE e.type = "split" ->
                  /\ data[i].splits # <<>>
                  /\ IsNumber(Prop(data[i].splits[1], e.control))
             [] e.type = "finish" -> data[i].status = 0 /\ data[i].progress = Num(100)
             [] OTHER -> data[i].status = 4

H21Keys == {ApiCacheKey(PairH21), SweepCacheKey(PairH21)}

\* no stored document is left that a later poll could diff the event from,
\* and a poll after the event has stored its snapshot
Settled(e) ==
    /\ \A p \in Procs : proc[p].pc = "idle"
    /\ \E k \in H21Keys : cache[k] # <<>> /\ Shows(cache[k][1].data, e)
    /\ \A k \in H21Keys :
          \/ cache[k] = <<>>
          \/ Shows(cache[k][1].data, e)
          \/ now - cache[k][1].timestamp > CLASS_RESULTS_TTL

\* C1 (as claimed): every provider event of a followed runner that occurs
\* over a stored baseline is sent exactly once to every follower with a
\* token: never twice, and once the polls are over, once.
C1_ExactlyOneNotification ==
    \A e \in happened :
        \A i \in TokenFollowers(e.runnerName) :
            /\ Deliveries(selectionsColl[i].userId, e) <= 1
            /\ Settled(e) => Deliveries(selectionsColl[i].userId, e) = 1

\* C1 failing input: the api handler and the sweep each held a baseline of
\* H21 under their own key when Anton finished, and both have sent the
\* finish notification to the same follower.
C1_Witness ==
    \E e \in happened :
        /\ e.type = "finish"
        /\ \E i \in TokenFollowers(e.runnerName) :
              Deliveries(selectionsColl[i].userId, e) = 2
        /\ \E p \in ApiProcs : \E q \in SweepProcs :
              /\ proc[p].log # <<>>
              /\ proc[q].log # <<>>

\* the sends of one logged sendToFollowers call to one follower
SendsTo(entry, f) ==
    {j \in 1..Len(entry.attempts) : entry.attempts[j].userId = f.userId}

\* C8: a sendToFollowers call makes exactly one send per follower whose
\* token is neither missing nor empty, to that token and with the payload of
\* the call, and none for the other followers; a rejected send is not
\* repeated.
C8_OneAttemptPerToken ==
    \A p \in Procs :
        \A n \in 1..Len(proc[p].log) :
            LET entry == proc[p].log[n]
                fs == entry.call.followers
            IN  /\ \A i \in 1..Len(fs) :
                      IF fs[i].fcmToken \in {Undefined, Str("")}
                      THEN SendsTo(entry, fs[i]) = {}
                      ELSE /\ Cardinality(SendsTo(entry, fs[i])) = 1
                           /\ \A j \in SendsTo(entry, fs[i]) :
                                 /\ entry.attempts[j].token = fs[i].fcmToken
                                 /\ entry.attempts[j].payload = entry.call.payload
                /\ \A j \in 1..Len(entry.attempts) :
                      \E i \in 1..Len(fs) : fs[i].userId = entry.attempts[j].userId

\* C8 witness: a call for four followers, two of them without a usable
\* token, has made two sends, the first of them rejected.
C8_Witness ==
    \E p \in Procs :
        \E n \in 1..Len(proc[p].log) :
            LET entry == proc[p].log[n]
            IN  /\ Len(entry.call.followers) = 4
                /\ Len(entry.attempts) = 2
                /\ ~entry.attempts[1].ok
                /\ entry.call.payload.data.type = "finish"

\* the cache document a handler writes
WrittenKey(p) ==
    IF p \in ApiProcs THEN ApiCacheKey(proc[p].pair)
    ELSE SweepCacheKey(proc[p].pair)

\* C9: whatever sends of a call are rejected, every follower with a token
\* is sent to and every send that is not rejected completes; the handler
\* goes on to the remaining calls and to its cache write, which stores the
\* fetched snapshot.
C9_FailureIsolated ==
    /\ [](\A p \in Procs :
            /\ \A n \in 1..Len(proc[p].log) :
                  LET entry == proc[p].log[n]
                      fs == entry.call.followers
                  IN  \A i \in 1..Len(fs) :
                        fs[i].fcmToken \notin {Undefined, Str("")} =>
                            \E j \in 1..Len(entry.attempts) :
                                /\ entry.attempts[j].userId = fs[i].userId
                                /\ entry.attempts[j].ok \in BOOLEAN
            /\ proc[p].log # <<>> =>
                  /\ proc[p].pc \in {"dispatch", "write", "respond"}
                  /\ proc[p].fetched # <<>>)
    /\ [][\A p \in Procs :
            (proc[p].pc = "write" /\ proc'[p] # proc[p]) =>
                cache'[WrittenKey(p)] =
                    <<[hash |-> proc[p].fetched[1].hash,
                       data |-> proc[p].fetched[1].data[1],
                       timestamp |-> now]>>]_vars

\* C9 witness: the api handler has answered after a call in which the send
\* to the first follower was rejected and the send to the second completed,
\* and the cache holds the snapshot it fetched.
C9_Witness ==
    \E p \in ApiProcs :
        /\ proc[p].pc = "respond"
        /\ proc[p].log # <<>>
        /\ Len(proc[p].log[1].attempts) = 2
        /\ ~proc[p].log[1].attempts[1].ok
        /\ proc[p].log[1].attempts[2].ok
        /\ cache[ApiCacheKey(proc[p].pair)] # <<>>
        /\ cache[ApiCacheKey(proc[p].pair)][1].hash = proc[p].fetched[1].hash

\* C10: a getCachedData call whose read does not raise returns the stored
\* document iff there is one and now - timestamp <= ttlMs, and null
\* otherwise.
C10_GetWithinMaxAge ==
    got # <<>> =>
        LET g == got[1]
            doc == cache[g.cacheKey]
        IN  g.readOk =>
                IF doc # <<>> /\ now - doc[1].timestamp <= g.ttlMs
                THEN g.result = doc
                ELSE g.result = <<>>

\* C10 witness: 16 s after the set, a get with 15000 ms returns null while
\* the document is young enough for a caller that accepts 15 minutes.
C10_Witness ==
    /\ got # <<>>
    /\ got[1].readOk
    /\ got[1].ttlMs = 15000
    /\ got[1].result = <<>>
    /\ cache[got[1].cacheKey] # <<>>
    /\ now - cache[got[1].cacheKey][1].timestamp = 16000
    /\ getCachedData(cache, got[1].cacheKey, CLASS_RESULTS_TTL, now, TRUE) # <<>>

----------------------------------------------------------------------------
(* Properties of the cache boundary and of the api handler.                 *)

\* the last getCachedData call read a document written at this very instant
ReadAtAgeZero ==
    /\ got # <<>>
    /\ got[1].readOk
    /\ cache[got[1].cacheKey] # <<>>
    /\ cache[got[1].cacheKey][1].timestamp = now

\* C11 (as claimed): with no time elapsed since the set, a get with a
\* positive ttlMs returns the document just written and a get with ttlMs 0
\* returns null.
C11_ZeroBudgetAbsent ==
    ReadAtAgeZero =>
        IF got[1].ttlMs > 0
        THEN got[1].result = cache[got[1].cacheKey]
        ELSE got[1].result = <<>>

\* C11 (amended): with no time elapsed since the set, a get returns the
\* document just written for every ttlMs >= 0, zero included; a get with
\* ttlMs 0 returns null once the clock has advanced past the write.
C11_SetThenGet ==
    /\ ReadAtAgeZero => got[1].result = cache[got[1].cacheKey]
    /\ (/\ got # <<>>
        /\ got[1].readOk
        /\ got[1].ttlMs = 0
        /\ cache[got[1].cacheKey] # <<>>
        /\ now > cache[got[1].cacheKey][1].timestamp) => got[1].result = <<>>

\* C11 witness: a document written at second 3 is read at second 3 with
\* ttlMs 0 and is returned.
C11_Witness ==
    /\ ReadAtAgeZero
    /\ now = 3000
    /\ got[1].ttlMs = 0
    /\ got[1].result # <<>>
    /\ got[1].result[1].hash = HashOf(2)

\* the cache document an api request reads and writes
RequestKey(me) ==
    IF me.method = "getclasses" THEN ClassesCacheKey(me.pair[1])
    ELSE ApiCacheKey(me.pair)

\* the cache holds a document of the key that is not older than 15 minutes
FreshEntry(k) ==
    cache[k] # <<>> /\ now - cache[k][1].timestamp <= CLASS_RESULTS_TTL

\* C12: an api request (getclassresults or getclasses) that carries a
\* last_hash equal to the hash of a fresh cached document goes straight to
\* its answer, which is NOT MODIFIED with that hash; answering changes
\* neither the cache nor the sends, so no fetch, diff, send or cache write is
\* made in that request.
C12_NotModifiedShortcut ==
    /\ [][\A p \in ApiProcs :
            (/\ proc[p].pc = "idle"
             /\ proc'[p].pc # "idle"
             /\ Truthy(proc'[p].lastHash)
             /\ FreshEntry(RequestKey(proc'[p]))
             /\ cache[RequestKey(proc'[p])][1].hash = proc'[p].lastHash)
            => /\ proc'[p].pc = "respond"
               /\ proc'[p].response =
                      <<[status |-> "NOT MODIFIED",
                         hash |-> proc'[p].lastHash, data |-> <<>>]>>
               /\ proc'[p].fetched = <<>>
               /\ proc'[p].log = <<>>]_vars
    /\ [][\A p \in ApiProcs :
            (proc[p].pc = "respond" /\ proc'[p] # proc[p])
            => /\ proc'[p] = Idle
               /\ cache' = cache
               /\ sent' = sent]_vars

\* C12 witness: a getclassresults request with last_hash h2 is being
\* answered NOT MODIFIED from the fresh document of hash h2, nothing fetched.
C12_Witness ==
    \E p \in ApiProcs :
        /\ proc[p].pc = "respond"
        /\ proc[p].method = "getclassresults"
        /\ proc[p].lastHash = HashOf(2)
        /\ proc[p].response # <<>>
        /\ proc[p].response[1].status = "NOT MODIFIED"
        /\ proc[p].fetched = <<>>
        /\ FreshEntry(RequestKey(proc[p]))
        /\ cache[RequestKey(proc[p])][1].hash = HashOf(2)

\* C13 (as claimed): an api request of any query shape that found a fresh
\* cached document and was not answered NOT MODIFIED makes no upstream fetch
\* and answers with the cached hash and data.
C13_FreshCacheServed ==
    \A p \in ApiProcs :
        /\ proc[p].pc \in {"fetch", "fetchclasses"} => proc[p].cached = <<>>
        /\ (proc[p].pc = "respond" /\ proc[p].cached # <<>>)
            => proc[p].response =
                   <<[status |-> "OK", hash |-> proc[p].cached[1].hash,
                      data |-> <<proc[p].cached[1].data>>]>>

\* C13 failing input: a getclassresults request without last_hash found the
\* fresh document of hash h1 and is about to fetch upstream all the same.
C13_Witness ==
    \E p \in ApiProcs :
        /\ proc[p].pc = "fetch"
        /\ proc[p].method = "getclassresults"
        /\ proc[p].lastHash = Undefined
        /\ proc[p].cached # <<>>
        /\ proc[p].cached[1].hash = HashOf(1)
        /\ FreshEntry(RequestKey(proc[p]))

\* the getclasses handler alone serves the fresh document without a fetch
C13_ClassesServed ==
    \A p \in ApiProcs :
        proc[p].method = "getclasses" =>
            /\ proc[p].pc = "fetchclasses" => ~FreshEntry(RequestKey(proc[p]))
            /\ (proc[p].pc = "respond" /\ proc[p].cached # <<>>)
                => proc[p].response =
                       <<[status |-> "OK", hash |-> proc[p].cached[1].hash,
                          data |-> <<proc[p].cached[1].data>>]>>

\* the sendToFollowers calls a handler has made so far in this run
CallsMade(me) == [i \in 1..Len(me.log) |-> me.log[i].call]

\* the calls the api handler's diff of the document read before the fetch
\* against the fetched results gives
ApiDiffCalls(me) ==
    IF me.cached = <<>> THEN <<>>
    ELSE notifyResultChanges(selectionsColl, TRUE, me.pair[1], me.pair[2],
                             me.cached[1].data, me.fetched[1].data[1], <<>>)

\* C14: in a getclassresults request that fetched changed results, all
\* sendToFollowers calls of the diff of the document read before the fetch
\* against the new results have been made, in order, when the handler is at
\* its cache write; the handler's steps before the write leave the cache as
\* it is; the write stores the new results with their hash and is followed
\* by the answer carrying them.
C14_DiffDispatchStoreRespond ==
    /\ [](\A p \in ApiProcs :
            (proc[p].method = "getclassresults" /\ proc[p].fetched # <<>>) =>
                /\ proc[p].pc \in {"notify", "dispatch", "write", "respond"}
                /\ proc[p].pc \in {"write", "respond"} =>
                      /\ proc[p].plan = <<>>
                      /\ CallsMade(proc[p]) = ApiDiffCalls(proc[p])
                /\ proc[p].pc = "respond" =>
                      /\ proc[p].response =
                             <<[status |-> "OK",
                                hash |-> proc[p].fetched[1].hash,
                                data |-> proc[p].fetched[1].data]>>
                      /\ cache[ApiCacheKey(proc[p].pair)] # <<>>
                      /\ cache[ApiCacheKey(proc[p].pair)][1].hash =
                             proc[p].fetched[1].hash
                      /\ cache[ApiCacheKey(proc[p].pair)][1].data =
                             proc[p].fetched[1].data[1])
    /\ [][\A p \in ApiProcs :
            (/\ proc[p].pc \in {"fetch", "notify", "dispatch"}
             /\ proc'[p] # proc[p])
            => cache' = cache]_vars
    /\ [][\A p \in ApiProcs :
            (proc[p].pc = "write" /\ proc'[p] # proc[p])
            => proc'[p].pc = "respond"]_vars

\* C14 witness: the api handler answers with Anton's finish after one
\* sendToFollowers call in which a send was rejected, the cache holding the
\* new snapshot.
C14_Witness ==
    \E p \in ApiProcs :
        /\ proc[p].pc = "respond"
        /\ proc[p].method = "getclassresults"
        /\ proc[p].cached # <<>>
        /\ Len(proc[p].log) = 1
        /\ proc[p].log[1].call.payload.data.type = "finish"
        /\ \E j \in 1..Len(proc[p].log[1].attempts) :
              ~proc[p].log[1].attempts[j].ok
        /\ cache[ApiCacheKey(proc[p].pair)][1].hash = proc[p].fetched[1].hash

----------------------------------------------------------------------------
(* Properties of the scheduled sweep.                                       *)

\* the (competition, class) pairs of the selections inside the window
ActivePairs ==
    {<<selectionsColl[i].competitionId, selectionsColl[i].className>> :
        i \in {j \in 1..Len(selectionsColl) :
                  /\ selectionsColl[j].startTime >= now - 180 * 60 * 1000
                  /\ selectionsColl[j].startTime <= now + 30 * 60 * 1000}}

\* the fetch of the current target has been made
CurrentPolled(me) == me.pc \in {"notify", "dispatch", "write"}

\* the pairs a running sweep has fetched, followed by those it has yet to
SweepSchedule(me) ==
    [i \in 1..Len(me.polled) |-> me.polled[i].pair]
    \o (IF CurrentPolled(me) THEN Tail(me.targets) ELSE me.targets)

\* C15: while a sweep runs, the pairs it has fetched followed by the pairs
\* it has yet to fetch are the distinct pairs of the active selections, each
\* once; the sweep ends only after the last of them.
C15_EachPairOnce ==
    /\ [](\A p \in SweepProcs :
            proc[p].pc # "idle" =>
                LET all == SweepSchedule(proc[p])
                IN  /\ {all[i] : i \in 1..Len(all)} = ActivePairs
                    /\ Len(all) = Cardinality(ActivePairs)
                    /\ CurrentPolled(proc[p]) =>
                          proc[p].polled[Len(proc[p].polled)].pair = proc[p].pair)
    /\ [][\A p \in SweepProcs :
            (proc[p].pc # "idle" /\ proc'[p].pc = "idle")
            => /\ Len(proc[p].targets) = 1
               /\ proc[p].pc \in {"fetch", "write"}]_vars

\* C15 witness: five selections on three pairs, the third pair fetched.
C15_Witness ==
    \E p \in SweepProcs :
        /\ Len(selectionsColl) = 5
        /\ proc[p].pc = "write"
        /\ Len(proc[p].polled) = 3
        /\ Cardinality({proc[p].polled[i].pair : i \in 1..3}) = 3

\* C16: the sweep's fetch of a pair carries the hash of the fresh cached
\* document of the pair, if there is one; when that hash is the provider's
\* current one, the fetch step changes neither the cache nor the sends and
\* the sweep goes on to its next pair or ends, without notify or write.
C16_UnchangedNoWork ==
    /\ [][\A p \in SweepProcs :
            (proc[p].pc = "read" /\ proc'[p] # proc[p])
            => /\ proc'[p].pc = "fetch"
               /\ proc'[p].lastHash =
                      IF FreshEntry(SweepCacheKey(proc[p].pair))
                      THEN cache[SweepCacheKey(proc[p].pair)][1].hash
                      ELSE Undefined]_vars
    /\ [][\A p \in SweepProcs :
            (/\ proc[p].pc = "fetch"
             /\ proc'[p] # proc[p]
             /\ Truthy(proc[p].lastHash)
             /\ proc[p].lastHash = HashOf(upstream[proc[p].pair].version))
            => /\ proc'[p].pc \in {"read", "idle"}
               /\ proc'[p].log = <<>>
               /\ cache' = cache
               /\ sent' = sent]_vars

\* C16 witness: the provider answered NOT MODIFIED for the first pair of a
\* sweep, whose cached document is untouched, and the sweep is at its next
\* pair.
C16_Witness ==
    \E p \in SweepProcs :
        /\ proc[p].pc = "read"
        /\ Len(proc[p].polled) = 1
        /\ proc[p].polled[1].status = "NOT MODIFIED"
        /\ cache[SweepCacheKey(proc[p].polled[1].pair)] # <<>>
        /\ cache[SweepCacheKey(proc[p].polled[1].pair)][1].timestamp < now
        /\ sent = <<>>

\* C17: a fetch step of the sweep that brings no results (the provider
\* failed or answered NOT MODIFIED) leaves the cache and the sends as they
\* are and takes the sweep to its next pair, or to its end after the last
\* pair; whatever the answers, the pairs fetched and yet to fetch stay the
\* active pairs; and a running sweep reaches its end.
C17_SweepSurvivesFailure ==
    /\ [][\A p \in SweepProcs :
            (/\ proc[p].pc = "fetch"
             /\ proc'[p] # proc[p]
             /\ proc'[p].fetched = <<>>)
            => /\ cache' = cache
               /\ sent' = sent
               /\ IF Len(proc[p].targets) > 1
                  THEN /\ proc'[p].pc = "read"
                       /\ proc'[p].pair = proc[p].targets[2]
                       /\ proc'[p].targets = Tail(proc[p].targets)
                  ELSE proc'[p].pc = "idle"]_vars
    /\ [](\A p \in SweepProcs :
            proc[p].pc # "idle" =>
                {SweepSchedule(proc[p])[i] :
                    i \in 1..Len(SweepSchedule(proc[p]))} = ActivePairs)
    /\ \A p \in SweepProcs : (proc[p].pc # "idle") ~> (proc[p].pc = "idle")

\* C17 witness: the fetch of the first pair failed, its cache document was
\* never written, and the sweep is writing the snapshot of a later pair.
C17_Witness ==
    \E p \in SweepProcs :
        /\ proc[p].pc = "write"
        /\ Len(proc[p].polled) >= 2
        /\ proc[p].polled[1].status = "ERROR"
        /\ proc[p].polled[Len(proc[p].polled)].status = "OK"
        /\ cache[SweepCacheKey(proc[p].polled[1].pair)] = <<>>

----------------------------------------------------------------------------
(* Properties of the cache as shared by the two coordinators.               *)

\* C18 (as claimed): when a handler writes the snapshot it fetched, every
\* document of that class-results query that a later diff can take as its
\* baseline (stored and not expired) holds the fetched results and hash.
C18_CacheHoldsLatest ==
    [][\A p \in Procs :
          (proc[p].pc = "write" /\ proc'[p] # proc[p])
          => \A k \in {ApiCacheKey(proc[p].pair), SweepCacheKey(proc[p].pair)} :
                (cache'[k] # <<>> /\ now - cache'[k][1].timestamp <= CLASS_RESULTS_TTL)
                => /\ cache'[k][1].hash = proc[p].fetched[1].hash
                   /\ cache'[k][1].data = proc[p].fetched[1].data[1]]_vars

\* C18 failing input: no handler running, both documents of H21 stored at
\* the same instant, the api handler's with hash h1 and the sweep's with the
\* provider's current hash h2.
C18_Witness ==
    /\ \A p \in Procs : proc[p].pc = "idle"
    /\ upstream[PairH21].version = 2
    /\ cache[ApiCacheKey(PairH21)] # <<>>
    /\ cache[SweepCacheKey(PairH21)] # <<>>
    /\ cache[ApiCacheKey(PairH21)][1].hash = HashOf(1)
    /\ cache[SweepCacheKey(PairH21)][1].hash = HashOf(2)
    /\ cache[ApiCacheKey(PairH21)][1].timestamp = now
    /\ cache[SweepCacheKey(PairH21)][1].timestamp = now

\* C19 (as claimed): the api handler and the sweep read and write one cache
\* document per class-results query: what one of them has stored for a pair
\* is what the other finds for it.
C19_SharedCacheEntry ==
    \A pr \in Pairs : cache[ApiCacheKey(pr)] = cache[SweepCacheKey(pr)]

\* C19 failing input: the api handler's document of H21 is stored and fresh
\* while the sweep, having found no document under its own key, writes its
\* first snapshot of H21 without a diff.
C19_Witness ==
    \E p \in SweepProcs :
        /\ proc[p].pc = "write"
        /\ proc[p].pair = PairH21
        /\ proc[p].cached = <<>>
        /\ proc[p].polled # <<>>
        /\ cache[SweepCacheKey(PairH21)] = <<>>
        /\ FreshEntry(ApiCacheKey(PairH21))
        /\ ApiCacheKey(PairH21) # SweepCacheKey(PairH21)

\* C20 (as claimed): for the same cached snapshot, fetched snapshot and
\* selections, the api handler and the sweep make the same sendToFollowers
\* calls in the same order, those for splits included.
C20_SamePathsSameCalls ==
    step \in {"compared", "recompared"} => payloads.api = payloads.sweep

\* C20 failing input: Anton's split at control 1065 arrives between the
\* cached and the fetched snapshot; the sweep's call yields the split
\* notification, the api handler's call yields none.
C20_Witness ==
    /\ step = "compared"
    /\ splitcontrols = <<Control1065>>
    /\ Len(oldResults) = 1 /\ Len(newResults) = 1
    /\ oldResults[1].splits = <<NotPassed("1065")>>
    /\ newResults[1].splits = <<Passed("1065", 26900, Str("2"), Num(1100))>>
    /\ payloads.api = <<>>
    /\ Len(payloads.sweep) = 1
    /\ payloads.sweep[1].payload.data.type = "split"

----------------------------------------------------------------------------
(* Properties of the handlers under failures.                               *)

\* C21 (as claimed): a poll of H21 that the provider answers with NOT
\* MODIFIED is a successful poll after every poll that detected the stored
\* changes, so when it ends every event that occurred over the baseline has
\* been sent to every follower with a token, also one whose notification an
\* earlier poll missed.
C21_MissedHealsNextPoll ==
    [][\A p \in SweepProcs :
          (/\ proc[p].pc = "fetch"
           /\ proc[p].pair = PairH21
           /\ proc'[p].pc = "idle"
           /\ proc[p].lastHash = HashOf(upstream[PairH21].version))
          => \A e \in happened :
                \A i \in TokenFollowers(e.runnerName) :
                    Deliveries(selectionsColl[i].userId, e) >= 1]_vars

\* C21 failing input: the sweep has diffed the stored baseline against a
\* changed snapshot while the selections query raised; it made no call and
\* is about to store the changed snapshot, after which no diff shows the
\* event again.
C21_Witness ==
    \E p \in SweepProcs :
        LET me == proc[p]
        IN  /\ me.pc = "write"
            /\ me.pair = PairH21
            /\ me.cached # <<>>
            /\ me.log = <<>>
            /\ notifyResultChanges(selectionsColl, TRUE, me.pair[1], me.pair[2],
                   me.cached[1].data, me.fetched[1].data[1],
                   me.fetched[1].splitcontrols) # <<>>
            /\ \E e \in happened :
                  \E i \in TokenFollowers(e.runnerName) :
                      Deliveries(selectionsColl[i].userId, e) = 0

\* both api requests have written what they fetched and are about to answer
BothWrote ==
    \A p \in ApiProcs :
        /\ proc[p].pc = "respond"
        /\ proc[p].pair = PairH21
        /\ proc[p].fetched # <<>>

\* both fetched the provider's present state
SameUpstreamState ==
    \A p \in ApiProcs :
        proc[p].fetched[1].hash = HashOf(upstream[PairH21].version)

\* the stored document is what one of the two wrote, and a diff of it
\* against the provider's present state makes no call
StoredIsIdempotent ==
    LET doc == cache[ApiCacheKey(PairH21)]
    IN  /\ doc # <<>>
        /\ \E p \in ApiProcs :
              /\ doc[1].hash = proc[p].fetched[1].hash
              /\ doc[1].data = proc[p].fetched[1].data[1]
        /\ SameUpstreamState =>
              ApiNotifyCall(selectionsColl, PairH21, doc[1].data,
                            upstream[PairH21].results) = <<>>

\* C22 (as claimed): after two concurrent api requests for one key have
\* both written, the document is the one written by one of them, and if
\* both fetched the same provider state a diff of the stored snapshot
\* against that state makes no call, whatever the snapshot.
C22_LastWriteWinsIdempotent == BothWrote => StoredIsIdempotent

\* C22 for snapshots in which no name occurs twice: the statement holds in
\* every interleaving.
C22_DistinctNamesIdempotent ==
    (BothWrote /\ upstream[PairH21].results[1].name # upstream[PairH21].results[2].name)
        => StoredIsIdempotent

\* C22 failing input: both requests missed the cache, fetched the same
\* snapshot with two entries named Berit Berg and stored it; the stored
\* snapshot diffed against the provider's unchanged state yields a finish
\* notification.
C22_Witness ==
    /\ BothWrote
    /\ SameUpstreamState
    /\ \A p \in ApiProcs : proc[p].cached = <<>>
    /\ upstream[PairH21].results = <<BeritDone, BeritStart>>
    /\ cache[ApiCacheKey(PairH21)] # <<>>
    /\ cache[ApiCacheKey(PairH21)][1].data = upstream[PairH21].results
    /\ LET calls == ApiNotifyCall(selectionsColl, PairH21,
                        cache[ApiCacheKey(PairH21)][1].data,
                        upstream[PairH21].results)
       IN  /\ Len(calls) = 1
           /\ calls[1].payload.data.type = "finish"

\* the document a handler stores when its write succeeds
WrittenDoc(p) ==
    <<[hash |-> proc[p].fetched[1].hash, data |-> proc[p].fetched[1].data[1],
       timestamp |-> now]>>

\* C23: over a cache whose reads and writes may raise, a failed read is a
\* miss after which the handler fetches from the provider; a write either
\* stores the fetched document or leaves the cache as it was; the api
\* handler then answers with what it fetched and never with an error, and
\* the sweep goes on with its next target.
C23_CacheFailureDegrades ==
    /\ [](\A p \in ApiProcs :
            proc[p].pc = "respond" =>
                /\ proc[p].response[1].status \in {"OK", "NOT MODIFIED"}
                /\ proc[p].fetched # <<>> =>
                      /\ proc[p].response[1].hash = proc[p].fetched[1].hash
                      /\ proc[p].response[1].data = proc[p].fetched[1].data)
    /\ [][\A p \in Procs :
            (proc[p].pc \in {"idle", "read"} /\ proc'[p].pc \notin {"idle", "read"})
            => /\ cache' = cache
               /\ \/ /\ proc'[p].pc = "fetch"
                     /\ proc'[p].cached \in {<<>>, cache[WrittenKey(p)']}
                  \/ /\ proc'[p].pc = "respond"
                     /\ cache[WrittenKey(p)'] # <<>>
                     /\ proc'[p].response[1].status = "NOT MODIFIED"
                     /\ proc'[p].response[1].hash = cache[WrittenKey(p)'][1].hash]_vars
    /\ [][\A p \in Procs :
            (proc[p].pc = "write" /\ proc'[p] # proc[p])
            => /\ cache' \in {cache, [cache EXCEPT ![WrittenKey(p)] = WrittenDoc(p)]}
               /\ p \in ApiProcs => proc'[p].pc = "respond"
               /\ p \in SweepProcs => proc'[p] = NextTarget(proc[p])]_vars

\* C23 witness: the api handler answers OK with the provider's present
\* snapshot although nothing could be read from or written to the cache:
\* its document of H21 is still the older one a read would have returned.
C23_Witness ==
    \E p \in ApiProcs :
        /\ proc[p].pc = "respond"
        /\ proc[p].cached = <<>>
        /\ proc[p].fetched # <<>>
        /\ FreshEntry(ApiCacheKey(PairH21))
        /\ cache[ApiCacheKey(PairH21)][1].hash # proc[p].fetched[1].hash
        /\ proc[p].response[1].status = "OK"
        /\ proc[p].response[1].hash = HashOf(upstream[PairH21].version)
        /\ proc[p].response[1].data = <<upstream[PairH21].results>>

----------------------------------------------------------------------------
(* Properties of the provider client.                                       *)

Unchanged(r) == r.status = "NOT MODIFIED" /\ r.data = <<>>
Changed(r) == r.status = "OK" /\ Truthy(r.hash) /\ r.data # <<>>
Failed(r) == r.status = "ERROR"

\* the response is one the claim names as a failure: a transport failure, a
\* non-2xx status or a body that does not parse after sanitization
NamedFailure(response) ==
    \/ response.transport = "rejects"
    \/ ~response.ok
    \/ response.raw = "garbage"

\* C24 (as claimed): a fetchFromAPI call that has returned gave exactly one
\* of unchanged (NOT MODIFIED without data), changed (OK with a hash and the
\* data) and error; a transport failure, a non-2xx answer and an
\* unparseable body give error; a body marked NOT MODIFIED gives unchanged.
C24_FetchTrichotomy ==
    (exchange # <<>> /\ exchange[1].state = "returned") =>
        LET r == fetchResult[1]
            response == exchange[1].response[1]
        IN  /\ Unchanged(r) \/ Changed(r) \/ Failed(r)
            /\ ~(Unchanged(r) /\ Changed(r))
            /\ ~(Unchanged(r) /\ Failed(r))
            /\ ~(Changed(r) /\ Failed(r))
            /\ NamedFailure(response) => Failed(r)
            /\ (~NamedFailure(response) /\ ~response.isNull
                  /\ response.status = Str("NOT MODIFIED")) => Unchanged(r)

\* C24 without the hash in "changed": every call returns NOT MODIFIED
\* without data, OK with data, or ERROR, and the named failures give ERROR.
C24_StatusTrichotomy ==
    (exchange # <<>> /\ exchange[1].state = "returned") =>
        LET r == fetchResult[1]
            response == exchange[1].response[1]
        IN  /\ Unchanged(r) \/ (r.status = "OK" /\ r.data # <<>>) \/ Failed(r)
            /\ NamedFailure(response) => Failed(r)
            /\ (~NamedFailure(response) /\ ~response.isNull
                  /\ response.status = Str("NOT MODIFIED")) => Unchanged(r)

\* C24 failing input: a 2xx answer whose body parses to an object with
\* status "ERR", no hash and no results; the call has returned OK with an
\* undefined hash and [] as data.
C24_Witness ==
    /\ exchange # <<>>
    /\ exchange[1].state = "returned"
    /\ exchange[1].dataKey = "results"
    /\ LET response == exchange[1].response[1]
       IN  /\ response.transport = "answers" /\ response.ok
           /\ response.raw = "clean" /\ ~response.isNull
           /\ response.status = Str("ERR")
           /\ response.hash = Undefined
           /\ response.payload = <<>>
    /\ fetchResult[1] = [status |-> "OK", hash |-> Undefined, data |-> << <<>> >>]

\* C25 (as claimed): a call that is waiting for the provider can be ended by
\* the client itself: while fetch() is pending, the step by which
\* fetchFromAPI returns is enabled.
C25_ClientEndsPendingFetch ==
    (exchange # <<>> /\ exchange[1].state = "pending") => ENABLED FetchReturn

\* C25 failing input: the request is sent and the provider has not answered;
\* nothing has been returned and only the provider can end the wait.
C25_Witness ==
    /\ exchange # <<>>
    /\ exchange[1].state = "pending"
    /\ fetchResult = <<>>
    /\ ~ENABLED FetchReturn
    /\ ENABLED (\E response \in Responses : ProviderAnswers(response))

\* C26: when fetchClassResults returns ERROR the api handler answers 500,
\* has stored and sent nothing and leaves every cache document as it was;
\* whatever statement raises, the handler still ends in an answer (500) and
\* the endpoint serves the next request.
C26_FetchErrorAnswered500 ==
    /\ [](\A p \in ApiProcs :
            (proc[p].polled # <<>> /\ proc[p].polled[1].status = "ERROR") =>
                /\ proc[p].pc = "respond"
                /\ proc[p].response[1].status = "500"
                /\ proc[p].fetched = <<>>
                /\ proc[p].log = <<>>)
    /\ [][\A p \in ApiProcs :
            (proc[p].pc = "fetch" /\ proc'[p].polled # <<>>
             /\ proc'[p].polled[1].status = "ERROR")
            => (cache' = cache /\ sent' = sent)]_vars
    /\ [][\A p \in ApiProcs :
            (proc[p].pc \in {"fetch", "notify", "dispatch", "write"}
             /\ proc'[p] # proc[p])
            => /\ proc'[p].pc \in {"notify", "dispatch", "write", "respond"}
               /\ proc'[p].pc = "respond" => proc'[p].response # <<>>]_vars
    /\ [][\A p \in ApiProcs :
            proc[p].pc = "respond" => ENABLED ApiRespond(p)]_vars

\* C26 witness: the provider failed on a request made over a stored
\* document of an older version; the handler is about to answer 500 and the
\* document is untouched.
C26_Witness ==
    \E p \in ApiProcs :
        /\ proc[p].pc = "respond"
        /\ proc[p].polled # <<>>
        /\ proc[p].polled[1].status = "ERROR"
        /\ proc[p].response[1].status = "500"
        /\ proc[p].cached # <<>>
        /\ cache[ApiCacheKey(PairH21)] = proc[p].cached
        /\ proc[p].cached[1].hash # HashOf(upstream[PairH21].version)
        /\ sent = <<>>

----------------------------------------------------------------------------
(* Properties of the cache documents.                                       *)

\* C27: a setCachedData call whose write succeeds leaves under its key the
\* document {hash, data, timestamp = time of the call}, whether or not a
\* document was there, and every other document as it was; a getCachedData
\* call made no later than ttlMs after the write returns that hash and data.
C27_SetReplacesEntry ==
    /\ [][\A k \in CacheKeys : \A v \in StoredVersions :
            CacheSet(k, v, TRUE) =>
                /\ cache'[k] = <<[hash |-> v.hash, data |-> v.data,
                                  timestamp |-> now]>>
                /\ \A j \in CacheKeys \ {k} : cache'[j] = cache[j]]_vars
    /\ [](got # <<>> =>
            LET g == got[1]
                doc == cache[g.cacheKey]
            IN  (g.readOk /\ doc # <<>> /\ now - doc[1].timestamp <= g.ttlMs)
                => /\ g.result # <<>>
                   /\ g.result[1].hash = doc[1].hash
                   /\ g.result[1].data = doc[1].data)

\* C27 witness: the sweep's document of H21 was written at 0 with hash h1;
\* the api handler's document was set 16 s later with hash h2, and a get
\* with a budget of 15 minutes returns the latter while the former is as it
\* was.
C27_Witness ==
    /\ got # <<>>
    /\ got[1].cacheKey = ApiCacheKey(PairH21)
    /\ got[1].ttlMs = CLASS_RESULTS_TTL
    /\ got[1].result # <<>>
    /\ got[1].result[1].hash = HashOf(2)
    /\ got[1].result[1].timestamp = 16000
    /\ cache[SweepCacheKey(PairH21)] # <<>>
    /\ cache[SweepCacheKey(PairH21)][1].timestamp = 0
    /\ cache[SweepCacheKey(PairH21)][1].hash = HashOf(1)

\* the set of (name, value) pairs of a params object
PairSet(params) == {params[i] : i \in 1..Len(params)}

\* C28: two getCacheKey calls whose params hold the same (name, value)
\* pairs return the same key, in whatever order the pairs were inserted.
C28_KeyIgnoresInsertionOrder ==
    \A i, j \in 1..Len(keyCalls) :
        PairSet(keyCalls[i].params) = PairSet(keyCalls[j].params)
            => keyCalls[i].key = keyCalls[j].key

\* C28 witness: {comp: 5, class: H21} and {class: H21, comp: 5} both give
\* "class=H21&comp=5".
C28_Witness ==
    /\ Len(keyCalls) = 2
    /\ keyCalls[1].params = << <<"comp", "5">>, <<"class", "H21">> >>
    /\ keyCalls[2].params = << <<"class", "H21">>, <<"comp", "5">> >>
    /\ keyCalls[1].key = "class=H21&comp=5"
    /\ keyCalls[2].key = "class=H21&comp=5"

\* a document written more than seven days ago
PastRetention(doc) == doc # <<>> /\ now - doc[1].timestamp > 7 * 24 * 60 * 60 * 1000

\* C29: a cleanCache run that does not fail deletes every document written
\* more than seven days ago and leaves every other document as it is, those
\* long past their query's TTL included; a run that fails leaves the whole
\* collection as it is.
C29_EvictsPastRetentionOnly ==
    /\ [][CleanCache(TRUE) =>
            \A k \in CacheKeys :
                cache'[k] = IF PastRetention(cache[k]) THEN <<>> ELSE cache[k]]_vars
    /\ [][CleanCache(FALSE) => cache' = cache]_vars
    /\ [][(\E k \in CacheKeys : cache[k] # <<>> /\ cache'[k] = <<>>)
            => \A k \in CacheKeys :
                  (cache[k] # <<>> /\ cache'[k] = <<>>) <=> PastRetention(cache[k])]_vars

\* C29 witness: on day nine the documents written on day zero and day one
\* are gone, the one written on day two, exactly seven days old and far past
\* its TTL of 15 minutes, is still there.
C29_Witness ==
    /\ now = 9 * 24 * 60 * 60 * 1000
    /\ cache[ApiCacheKey(PairH21)] = <<>>
    /\ cache[ClassesCacheKey(CompId)] = <<>>
    /\ cache[SweepCacheKey(PairH21)] # <<>>
    /\ now - cache[SweepCacheKey(PairH21)][1].timestamp = 7 * 24 * 60 * 60 * 1000
    /\ now - cache[SweepCacheKey(PairH21)][1].timestamp > CLASS_RESULTS_TTL

\* the sendToFollowers calls of a handler's current diff: those made and
\* those still to make
EventsOf(p) ==
    [i \in 1..Len(proc[p].log) |-> proc[p].log[i].call.payload.data]
    \o [i \in 1..Len(proc[p].plan) |-> proc[p].plan[i].payload.data]

\* the position of the runner's entry in a snapshot
PositionIn(results, name) == CHOOSE i \in 1..Len(results) : results[i].name = name

\* the controls of the metadata, in its order, that the runner has newly
\* passed
ArrivedCodes(old, new, sc, name) ==
    LET o == old[PositionIn(old, name)]
        n == new[PositionIn(new, name)]
        arrived == SelectSeq(sc, LAMBDA c :
                       /\ o.splits[1][c.code] = Str("")
                       /\ n.splits[1][c.code] # Str(""))
    IN  [i \in 1..Len(arrived) |-> arrived[i].code]

\* the controls of the runner's split events, in event order
SplitCodes(events, name) ==
    LET mine == SelectSeq(events, LAMBDA e : e.runnerName = name /\ e.type = "split")
    IN  [i \in 1..Len(mine) |-> mine[i].control]

\* every follower with a token has one settled attempt of the call, and
\* nobody else has one
AllSettled(entry) ==
    LET withToken == SelectSeq(entry.call.followers,
                               LAMBDA f : f.fcmToken \notin {Undefined, Str("")})
    IN  /\ Len(entry.attempts) = Len(withToken)
        /\ \A i \in 1..Len(withToken) :
              /\ entry.attempts[i].token = withToken[i].fcmToken
              /\ entry.attempts[i].payload = entry.call.payload
              /\ entry.attempts[i].ok \in BOOLEAN

\* C30: the events of one diff follow the order of their runners in the new
\* snapshot; a runner's split events are one per newly passed control, in
\* the order of the splitcontrols metadata; each dispatch step makes the
\* first call still to make, and when it is made every delivery of the
\* calls before it has settled.
C30_EventOrder ==
    /\ [](\A p \in SweepProcs :
            proc[p].pc \in {"dispatch", "write"} /\ proc[p].cached # <<>> =>
               LET old == proc[p].cached[1].data
                   new == proc[p].fetched[1].data[1]
                   sc == proc[p].fetched[1].splitcontrols
                   events == EventsOf(p)
               IN  /\ \A i, j \in 1..Len(events) :
                         i < j => PositionIn(new, events[i].runnerName)
                                    <= PositionIn(new, events[j].runnerName)
                   /\ \A k \in 1..Len(new) :
                         SplitCodes(events, new[k].name)
                            = ArrivedCodes(old, new, sc, new[k].name))
    /\ [][\A p \in SweepProcs :
            proc[p].pc = "dispatch" /\ proc'[p].log # proc[p].log =>
               /\ proc'[p].plan = Tail(proc[p].plan)
               /\ Len(proc'[p].log) = Len(proc[p].log) + 1
               /\ SubSeq(proc'[p].log, 1, Len(proc[p].log)) = proc[p].log
               /\ proc'[p].log[Len(proc'[p].log)].call = Head(proc[p].plan)
               /\ \A i \in 1..Len(proc'[p].log) : AllSettled(proc'[p].log[i])]_vars

\* C30 witness: the new snapshot has Berit before Anton and the metadata
\* control 1090 before 1065; both have passed both controls and finished;
\* the six calls were made in that order, one delivery of the first
\* rejected.
C30_Witness ==
    \E p \in SweepProcs :
        /\ proc[p].pc = "write"
        /\ proc[p].plan = <<>>
        /\ [i \in 1..Len(proc[p].log) |->
               EventKey(proc[p].log[i].call.payload.data)]
             = << [runnerName |-> Berit, type |-> "split", control |-> "1090"],
                  [runnerName |-> Berit, type |-> "split", control |-> "1065"],
                  [runnerName |-> Berit, type |-> "finish", control |-> ""],
                  [runnerName |-> Anton, type |-> "split", control |-> "1090"],
                  [runnerName |-> Anton, type |-> "split", control |-> "1065"],
                  [runnerName |-> Anton, type |-> "finish", control |-> ""] >>
        /\ ~proc[p].log[1].attempts[1].ok
        /\ Len(proc[p].log[4].attempts) = 2

\* m:ss of a positive number of centiseconds, by its defining inequalities
MinutesSeconds(cs) ==
    LET ms == CHOOSE q \in (0..(MaxBehind \div 6000 + 1)) \X (0..59) :
                  /\ q[1] * 6000 + q[2] * 100 <= cs
                  /\ cs < q[1] * 6000 + q[2] * 100 + 100
    IN  ToString(ms[1]) \o ":" \o (IF ms[2] < 10 THEN "0" ELSE "")
        \o ToString(ms[2])

\* the body of the split payload without a marking of the time behind
UnmarkedBody(n) ==
    LET place == Prop(n.splits[1], "1065_place")
    IN  n.name \o " passed " \o Control1065.name
        \o (CASE place = Str("1") -> ", 1st place"
              [] place = Str("12") -> ", 12th place"
              [] OTHER -> "")

\* C31: the body of a split payload ends in " (leading!)" when the time
\* behind at the control is the number 0, in " (+m:ss)" when it is a
\* positive number of centiseconds, and carries neither when the time behind
\* is missing or not a number; the marking of 0 differs from that of every
\* positive deficit.
C31_LeadingDistinct ==
    step = "diffed" =>
        \A i \in 1..Len(payloads) :
            payloads[i].data.type = "split" =>
                LET n == newResults[1]
                    timeplus == Prop(n.splits[1], "1065_timeplus")
                    base == UnmarkedBody(n)
                IN  /\ timeplus = Num(0) => payloads[i].body = base \o " (leading!)"
                    /\ IsNumber(timeplus) /\ timeplus # Num(0) =>
                          /\ payloads[i].body
                                = base \o " (+" \o MinutesSeconds(timeplus[2]) \o ")"
                          /\ payloads[i].body # base \o " (leading!)"
                    /\ ~IsNumber(timeplus) => payloads[i].body = base

\* C31 witness: the split payload of a runner 59.99 s behind, rendered
\* " (+0:59)", has been built; the runner is 12th.
C31_Witness ==
    /\ step = "diffed"
    /\ Len(payloads) = 1
    /\ Prop(newResults[1].splits[1], "1065_timeplus") = Num(5999)
    /\ payloads[1].body = Anton \o " passed Radio K65, 12th place (+0:59)"

\* the subscriptions of the collection for a runner of a pair, in the
\* collection's order
SubscriptionsFor(pair, name) ==
    SelectSeq(selectionsColl, LAMBDA d : /\ d.competitionId = pair[1]
                                         /\ d.className = pair[2]
                                         /\ d.runnerName = name)

\* C32: the follower list of every sendToFollowers call of a diff of a pair
\* is the list of the subscriptions of that competition, class and runner
\* name, compared as they are written; a runner with an event and such a
\* subscription gets a call; with no subscription of the pair, or with a
\* selections query that raises, no call is made and the diff returns.
C32_ExactFollowers ==
    /\ [][\A pair \in Pairs :
            Match(pair, TRUE) =>
               /\ \A i \in 1..Len(payloads') :
                     /\ payloads'[i].followers
                          = SubscriptionsFor(pair, payloads'[i].payload.data.runnerName)
                     /\ payloads'[i].followers # <<>>
               /\ \A k \in 1..Len(newResults) :
                     /\ newResults[k] # oldResults[k]
                     /\ SubscriptionsFor(pair, newResults[k].name) # <<>>
                     => \E i \in 1..Len(payloads') :
                           payloads'[i].payload.data.runnerName = newResults[k].name
               /\ (\A d \in {selectionsColl[j] : j \in 1..Len(selectionsColl)} :
                      <<d.competitionId, d.className>> # pair) => payloads' = <<>>]_vars
    /\ [][\A pair \in Pairs : Match(pair, FALSE) => payloads' = <<>>]_vars

\* C32 witness: the collection holds all seven subscriptions; the diff of
\* class H21 with both runners finished calls sendToFollowers for Anton with
\* u1 and u3 only and for Berit with u4 only.
C32_Witness ==
    /\ step = "diffed"
    /\ selectionsColl = MatchDocs
    /\ Len(payloads) = 2
    /\ payloads[1].payload.data.className = ClassName
    /\ payloads[1].payload.data.competitionId = CompId
    /\ [i \in 1..Len(payloads[1].followers) |-> payloads[1].followers[i].userId]
         = <<"u1", "u3">>
    /\ [i \in 1..Len(payloads[2].followers) |-> payloads[2].followers[i].userId]
         = <<"u4">>

\* the (competition, class, runner name) of the stored documents
StoredTriples ==
    { <<subscriptions[i].competitionId, subscriptions[i].className, subscriptions[i].runnerName>> :
        i \in DOMAIN subscriptions }

\* C33: after any sequence of addSelection and removeSelection calls of one
\* user the collection holds one document for every (competition, class, runner
\* name) the user follows and no other document.
C33_OneSubscriptionPerFollowed ==
    /\ StoredTriples = following
    /\ Cardinality(DOMAIN subscriptions) = Cardinality(following)

\* C33 witness: the user follows Ann-Mari and Ann Mari of class H21 and Bo Ek
\* of D21; the collection holds two documents, none of them Ann-Mari's.
C33_Witness ==
    /\ following = { <<CompId, ClassName, AnnMariHyphen>>,
                     <<CompId, ClassName, AnnMariBlank>>,
                     <<CompId, "D21", BoEk>> }
    /\ Cardinality(DOMAIN subscriptions) = 2
    /\ <<CompId, ClassName, AnnMariHyphen>> \notin StoredTriples

\* the pairs with a subscription whose start time S has
\* S - 30 min <= t <= S + 180 min
PairsInWindow(t) ==
    { <<selectionsColl[i].competitionId, selectionsColl[i].className>> :
        i \in { j \in 1..Len(selectionsColl) :
                  /\ selectionsColl[j].startTime - 30 * 60 * 1000 <= t
                  /\ t <= selectionsColl[j].startTime + 180 * 60 * 1000 } }

C34_WitnessEnd ==
    /\ now = 240 * 60 * 1000
    /\ Len(selectionsColl) = 4
    /\ \E p \in SweepProcs :
          /\ proc[p].pc = "write"
          /\ [i \in 1..Len(proc[p].polled) |-> proc[p].polled[i].pair]
               = <<PairH21, PairD21>>

\* the classes whose results a request has fetched with status OK
ClassesFetchedOk(me) ==
    { me.polled[i].pair[2] : i \in { j \in 2..Len(me.polled) :
                                        me.polled[j].status = "OK" } }

\* the runners of a club in the provider's results of a set of classes
RunnersOfClub(classes, club) ==
    { r \in UNION { { <<c, i>> : i \in 1..Len(ClubEntries(c)) } : c \in classes } :
        ClubEntries(r[1])[r[2]].club = club }

\* C35: an answer of getclubs or getrunnersforclub gathered from the
\* provider is an error iff the class list could not be fetched; otherwise
\* it is OK and its data is made of all runners of the classes whose
\* results were fetched and of no runner of a class whose fetch failed:
\* every club with its number of such runners, most runners first, or the
\* runners of the club asked for, class by class.
C35_PartialAggregate ==
    \A p \in ApiProcs :
        LET me == proc[p]
        IN  me.method \in {"getclubs", "getrunnersforclub"} /\ me.polled # <<>> =>
              IF me.polled[1].status # "OK"
              THEN /\ me.pc = "respond"
                   /\ me.response[1].status = "500"
              ELSE LET data == me.fetched[1].data[1]
                       ok == ClassesFetchedOk(me)
                   IN  /\ me.pc \in {"store", "answer", "respond"}
                       /\ me.pc = "respond" =>
                             /\ me.response[1].status = "OK"
                             /\ me.response[1].data = <<data>>
                       /\ me.method = "getclubs" =>
                             /\ \A club \in {Linne, Lidingo, Ravinen} :
                                   LET n == Cardinality(RunnersOfClub(ok, club))
                                       listed == { i \in 1..Len(data) : data[i].name = club }
                                   IN  IF n = 0 THEN listed = {}
                                       ELSE /\ Cardinality(listed) = 1
                                            /\ \A i \in listed : data[i].runners = n
                             /\ \A i \in 1..Len(data) :
                                   data[i].name \in {Linne, Lidingo, Ravinen}
                             /\ \A i, j \in 1..Len(data) :
                                   i < j => data[i].runners >= data[j].runners
                       /\ me.method = "getrunnersforclub" =>
                             /\ \A i \in 1..Len(data) : data[i].className \in ok
                             /\ \A c \in ok :
                                   LET mine == SelectSeq(data, LAMBDA r : r.className = c)
                                       theirs == SelectSeq(ClubEntries(c),
                                                     LAMBDA e : e.club = me.pair[2])
                                   IN  [i \in 1..Len(mine) |-> mine[i].name]
                                         = [i \in 1..Len(theirs) |-> theirs[i].name]

\* C35 witness: getclubs is answered OK with the clubs of class D21 alone,
\* the results of class H21 having failed.
C35_Witness ==
    \E p \in ApiProcs :
        /\ proc[p].pc = "respond"
        /\ proc[p].method = "getclubs"
        /\ proc[p].polled = << [pair |-> <<CompId, "">>, status |-> "OK"],
                               [pair |-> <<CompId, ClassName>>, status |-> "ERROR"],
                               [pair |-> <<CompId, "D21">>, status |-> "OK"] >>
        /\ proc[p].response[1].status = "OK"
        /\ proc[p].response[1].data
             = << << [name |-> Linne, runners |-> 2], [name |-> Lidingo, runners |-> 1] >> >>

\* the request of p has gathered its data and its setCachedData has stored
\* the document of its query
WroteDocument(p) ==
    LET me == proc[p]
        k == AggregateKey(me.method, me.pair)
    IN  /\ me.method \in AggregateMethods
        /\ me.fetched # <<>>
        /\ Truthy(me.fetched[1].hash)
        /\ cache[k] # <<>>
        /\ cache[k][1].hash = me.fetched[1].hash
        /\ cache[k][1].data = me.fetched[1].data[1]

\* C39: the token of an OK answer of a request that stored its document is
\* the token of the stored document.
C39_AnswerCarriesStoredToken ==
    \A p \in ApiProcs :
        /\ proc[p].pc = "respond"
        /\ proc[p].response[1].status = "OK"
        /\ WroteDocument(p)
        => proc[p].response[1].hash
             = cache[AggregateKey(proc[p].method, proc[p].pair)][1].hash

\* C39 failing input: getclubs has stored its list under the token "0" and,
\* one millisecond later, answers OK with the token "1".
C39_Witness ==
    \E p \in ApiProcs :
        /\ proc[p].pc = "respond"
        /\ proc[p].method = "getclubs"
        /\ WroteDocument(p)
        /\ cache[AggregateKey("getclubs", proc[p].pair)][1].hash = ClockToken(0)
        /\ proc[p].response[1] = [status |-> "OK", hash |-> ClockToken(1),
                                  data |-> proc[p].fetched[1].data]

\* C40: when the provider answers NOT MODIFIED to the token the caller sent,
\* the api does not answer OK with a document of another token.
C40_UnchangedNotReplaced ==
    \A p \in ApiProcs :
        /\ proc[p].pc = "respond"
        /\ proc[p].polled # <<>>
        /\ proc[p].polled[1].status = "NOT MODIFIED"
        /\ proc[p].response[1].status = "OK"
        => proc[p].response[1].hash = proc[p].lastHash

\* C40 failing input: the caller holds the provider's second version (its
\* earlier answer could not be stored), the stored document is the first
\* version; the provider answers NOT MODIFIED and the api answers OK with
\* the first version, in which Anton has not finished.
C40_Witness ==
    \E p \in ApiProcs :
        /\ proc[p].pc = "respond"
        /\ proc[p].lastHash = HashOf(2)
        /\ upstream[PairH21].version = 2
        /\ upstream[PairH21].results[1].status = 0
        /\ proc[p].polled = <<[pair |-> PairH21, status |-> "NOT MODIFIED"]>>
        /\ cache[ApiCacheKey(PairH21)] # <<>>
        /\ cache[ApiCacheKey(PairH21)][1].hash = HashOf(1)
        /\ proc[p].response[1] = [status |-> "OK", hash |-> HashOf(1),
                                  data |-> <<cache[ApiCacheKey(PairH21)][1].data>>]
        /\ cache[ApiCacheKey(PairH21)][1].data[1].status = 9

\* C36: after a call the array has the length it had, every byte below 0x20
\* other than 0x09, 0x0A and 0x0D is 0x20 and every other byte is what it
\* was; a second call on the result changes nothing.
C36_SanitizeBytes ==
    buffer # <<>> =>
        LET before == buffer[1].passed
            after == buffer[1].returned
        IN  /\ Len(after) = Len(before)
            /\ \A i \in 1..Len(before) :
                  after[i] = IF before[i] \in (0..31) \ {9, 10, 13}
                             THEN 32 ELSE before[i]
            /\ buffer[1].calls = 2 =>
                  /\ after = before
                  /\ \A i \in 1..Len(after) :
                        after[i] = IF buffer[1].first[i] \in (0..31) \ {9, 10, 13}
                                   THEN 32 ELSE buffer[1].first[i]

\* C36 witness: the bytes 0x0B and 0x0A were passed, 0x20 and 0x0A came
\* back, and the second call has returned the same two bytes.
C36_Witness ==
    /\ buffer # <<>>
    /\ buffer[1].calls = 2
    /\ buffer[1].first = <<11, 10>>
    /\ buffer[1].passed = <<32, 10>>
    /\ buffer[1].returned = <<32, 10>>

\* the polls that made a Finished call for the runner
FinishedPolls ==
    { k \in 1..Len(polls) :
        \E i \in 1..Len(polls[k].calls) :
            /\ polls[k].calls[i].payload.data.type = "finish"
            /\ polls[k].calls[i].payload.data.runnerName = Anton }

\* C37: over the polls of a class a Finished call is made for a runner at
\* exactly the polls where the runner's progress goes from below 100 to 100
\* or more with status OK, once per such poll; with a progress that never
\* goes down that is at most one poll; a poll where the progress goes down
\* makes no Finished call.
C37_FinishedPerCrossing ==
    /\ FinishedPolls = { k \in 1..Len(polls) :
                            /\ ProgressOf(polls[k].old) < 100
                            /\ ProgressOf(polls[k].new) >= 100
                            /\ polls[k].new.status = 0 }
    /\ \A k \in 1..Len(polls) :
          /\ Cardinality({ i \in 1..Len(polls[k].calls) :
                              polls[k].calls[i].payload.data.type = "finish" }) <= 1
          /\ ProgressOf(polls[k].new) < ProgressOf(polls[k].old) => k \notin FinishedPolls
    /\ (\A k \in 1..Len(polls) : ProgressOf(polls[k].new) >= ProgressOf(polls[k].old))
          => Cardinality(FinishedPolls) <= 1

\* C37 witness: progress 100, then 80, then 100 again, each with status OK:
\* the first and the third poll made a Finished call, the second none.
C37_Witness ==
    /\ Len(polls) = 3
    /\ [k \in 1..3 |-> polls[k].new.progress] = <<Num(100), Num(80), Num(100)>>
    /\ \A k \in 1..3 : polls[k].new.status = 0
    /\ FinishedPolls = {1, 3}
    /\ polls[2].old.progress = Num(100)

\* C38: the sweep diffs and dispatches for a pair only when its lookup found
\* a stored entry younger than the class-results TTL with a non-empty runner
\* list. A poll that ends without a write (an unchanged answer among them)
\* leaves the stored entry and its write time as they are. An entry older than
\* the TTL is read as absent: the poll sends no prior token, goes from the
\* fetch straight to the write and makes no sendToFollowers call.
C38_DispatchNeedsFreshEntry ==
    [][\A p \in SweepProcs :
          /\ (proc[p].pc = "read" /\ proc'[p].pc = "fetch")
               => /\ (proc'[p].cached # <<>>) <=> FreshEntry(SweepCacheKey(proc[p].pair))
                  /\ ~FreshEntry(SweepCacheKey(proc[p].pair))
                       => proc'[p].lastHash = Undefined
          /\ (proc[p].pc = "fetch" /\ proc'[p] # proc[p])
               => /\ cache' = cache
                  /\ proc[p].cached = <<>> => proc'[p].pc \in {"write", "read", "idle"}
          /\ proc'[p].pc \in {"notify", "dispatch"}
               => /\ proc'[p].cached # <<>>
                  /\ Len(proc'[p].cached[1].data) > 0
          /\ sent' # sent
               => /\ proc[p].pc = "dispatch"
                  /\ proc[p].cached # <<>>
                  /\ Len(proc[p].cached[1].data) > 0
      ]_vars

\* C38 witness: the entry of class H21 was stored at time 0, the provider's
\* snapshot has changed since, the clock is past the TTL; the poll found no
\* entry, sent no token, and is about to store the changed snapshot without
\* having made a call.
C38_Witness ==
    \E p \in SweepProcs :
        /\ proc[p].pc = "write"
        /\ proc[p].pair = PairH21
        /\ proc[p].cached = <<>>
        /\ proc[p].lastHash = Undefined
        /\ cache[SweepCacheKey(PairH21)] # <<>>
        /\ cache[SweepCacheKey(PairH21)][1].timestamp = 0
        /\ now > CLASS_RESULTS_TTL
        /\ cache[SweepCacheKey(PairH21)][1].data # proc[p].fetched[1].data[1]
        /\ happened # {}
        /\ sent = <<>>

====
